---------------------------- MODULE Spec2Model ----------------------------
(***************************************************************************)
(* The extraction / scoring / deduplication / filtering pipeline of        *)
(* EarningsSeleniumScraper (scrape_earnings_selenium_final.py).            *)
(*                                                                         *)
(* Python str values are sequences of one-character strings, so that       *)
(* upper(), strip(), len(), `in` and the regular expressions are computed  *)
(* character by character.  Python dicts are functions whose DOMAIN is the *)
(* set of keys present.  Floats are fixed-point integers, Scale units to 1.*)
(***************************************************************************)
EXTENDS Integers, Sequences, FiniteSets, TLC

(***************************************************************************)
(* Characters and the str methods the code uses.                           *)
(***************************************************************************)
UpperLetters == <<"A","B","C","D","E","F","G","H","I","J","K","L","M","N","O","P","Q","R","S","T","U","V","W","X","Y","Z">>
LowerLetters == <<"a","b","c","d","e","f","g","h","i","j","k","l","m","n","o","p","q","r","s","t","u","v","w","x","y","z">>
Digits == <<"0","1","2","3","4","5","6","7","8","9">>

Range(s) == {s[i] : i \in DOMAIN s}

UpperSet == Range(UpperLetters)
LowerSet == Range(LowerLetters)
DigitSet == Range(Digits)

IsUpper(c) == c \in UpperSet
IsLower(c) == c \in LowerSet
IsDigit(c) == c \in DigitSet
\* \s of the re module, and the characters str.strip() removes
SpaceSet == {" ", "\t", "\n", "\r"}
IsSpace(c) == c \in SpaceSet
\* \w of the re module
IsWordChar(c) == IsUpper(c) \/ IsLower(c) \/ IsDigit(c) \/ c = "_"

IndexIn(c, alphabet) == CHOOSE i \in DOMAIN alphabet : alphabet[i] = c

ToUpper == [c \in LowerSet |-> UpperLetters[IndexIn(c, LowerLetters)]]
ToLower == [c \in UpperSet |-> LowerLetters[IndexIn(c, UpperLetters)]]

UpperChar(c) == IF IsLower(c) THEN ToUpper[c] ELSE c
LowerChar(c) == IF IsUpper(c) THEN ToLower[c] ELSE c

\* str.upper(), str.lower()
Upper(s) == [i \in DOMAIN s |-> UpperChar(s[i])]
Lower(s) == [i \in DOMAIN s |-> LowerChar(s[i])]

\* str.strip(): leading and trailing whitespace removed
Strip(s) ==
    LET keep == {i \in DOMAIN s : ~IsSpace(s[i])}
    IN  IF keep = {} THEN <<>>
        ELSE LET lo == CHOOSE i \in keep : \A j \in keep : i <= j
                 hi == CHOOSE i \in keep : \A j \in keep : j <= i
             IN  SubSeq(s, lo, hi)

\* whether sub occurs at position i of s
MatchAt(s, i, sub) ==
    /\ i >= 1
    /\ i + Len(sub) - 1 <= Len(s)
    /\ \A k \in 1..Len(sub) : s[i + k - 1] = sub[k]

\* `sub in s`
Contains(s, sub) == \E i \in 1..(Len(s) + 1) : MatchAt(s, i, sub)

\* ' '.join(parts)
RECURSIVE JoinSpace(_)
JoinSpace(parts) ==
    IF parts = <<>> THEN <<>>
    ELSE IF Len(parts) = 1 THEN parts[1]
    ELSE parts[1] \o <<" ">> \o JoinSpace(Tail(parts))

\* dict.get(key, default)
Get(d, key, default) == IF key \in DOMAIN d THEN d[key] ELSE default

\* `key in d and d[key]`: present and non-empty
Truthy(d, key) == key \in DOMAIN d /\ d[key] /= <<>>

(***************************************************************************)
(* re.match(r'^[A-Z]{1,5}$', s).  `$` also matches before one trailing     *)
(* newline.                                                                *)
(***************************************************************************)
IsUpperRun(s, lo, hi) ==
    /\ Len(s) >= lo
    /\ Len(s) <= hi
    /\ \A i \in DOMAIN s : IsUpper(s[i])

MatchesTicker(s) ==
    \/ IsUpperRun(s, 1, 5)
    \/ /\ Len(s) >= 2
       /\ s[Len(s)] = "\n"
       /\ IsUpperRun(SubSeq(s, 1, Len(s) - 1), 1, 5)

\* false_positives of deduplicate_companies
false_positives ==
    { <<"A","M">>, <<"P","M">>, <<"E","T">>, <<"P","T">>, <<"C","T">>, <<"M","T">>, <<"E","S","T">>, <<"P","S","T">>, <<"G","M","T">>, <<"U","T","C">>,
      <<"H","T","M","L">>, <<"D","I","V">>, <<"S","P","A","N">>, <<"C","L","A","S","S">>, <<"S","T","Y","L","E">>, <<"H","R","E","F">>, <<"S","R","C">>, <<"A","L","T">>,
      <<"T","E","X","T">>, <<"F","O","N","T">>, <<"S","I","Z","E">>, <<"C","O","L","O","R">>, <<"B","O","L","D">>, <<"L","I","N","K">>, <<"B","U","T","T","O","N">>,
      <<"F","O","R","M">>, <<"I","N","P","U","T">>, <<"T","A","B","L","E">>, <<"T","B","O","D","Y">>, <<"T","H","E","A","D">>, <<"C","E","L","L">>, <<"R","O","W">>,
      <<"C","E","O">>, <<"C","F","O">>, <<"E","P","S">>, <<"Q","1">>, <<"Q","2">>, <<"Q","3">>, <<"Q","4">>, <<"T","H","E">>, <<"A","N","D">>,
      <<"F","O","R">>, <<"B","U","T">>, <<"N","O","T">>, <<"Y","O","U">>, <<"A","L","L">>, <<"C","A","N">>, <<"H","A","D">>, <<"H","E","R">>, <<"W","A","S">>,
      <<"O","N","E">>, <<"O","U","R">>, <<"O","U","T">>, <<"D","A","Y">>, <<"G","E","T">>, <<"U","S","E">>, <<"M","A","N">>, <<"N","E","W">>, <<"N","O","W">>,
      <<"W","A","Y">>, <<"M","A","Y">>, <<"S","A","Y">>, <<"T","O","P">>, <<"E","N","D">>, <<"K","E","Y">>, <<"O","P","E","N">>, <<"B","M","O">>, <<"A","M","C">>,
      <<"T","B","D">>, <<"N","O","N","E">>, <<"V","I","E","W">>, <<"L","I","S","T">>, <<"O","N","L","Y">> }

(***************************************************************************)
(* calculate_data_richness                                                 *)
(***************************************************************************)
text_content(company) ==
    Lower(JoinSpace(<< Get(company, "raw_text", <<>>),
                       Get(company, "context_line", <<>>),
                       Get(company, "company_name", <<>>),
                       Get(company, "reported_revenue", <<>>) >>))

\* reported_revenue weighed as company_name is
FieldScore_LowRevenueWeight(company) ==
      (IF Truthy(company, "company_name") THEN 10 ELSE 0)
    + (IF Truthy(company, "reported_revenue") THEN 10 ELSE 0)
    + (IF Truthy(company, "raw_text") THEN Len(company["raw_text"]) ELSE 0)
    + (IF Truthy(company, "context_line") THEN Len(company["context_line"]) ELSE 0)

FieldScore(company) ==
      (IF Truthy(company, "company_name") THEN 10 ELSE 0)
    + (IF Truthy(company, "reported_revenue") THEN 100 ELSE 0)
    + (IF Truthy(company, "raw_text") THEN Len(company["raw_text"]) ELSE 0)
    + (IF Truthy(company, "context_line") THEN Len(company["context_line"]) ELSE 0)

\* every revenue bonus that applies is added
RevenueBonus_Cumulative(text) ==
      (IF Contains(text, <<"r","e","p","o","r","t","e","d"," ","r","e","v","e","n","u","e">>) THEN 80 ELSE 0)
    + (IF Contains(text, <<"r","e","v","e","n","u","e">>) /\ ~Contains(text, <<"e","s","t","i","m","a","t","e">>) THEN 50 ELSE 0)
    + (IF Contains(text, <<"r","e","v","e","n","u","e">>) THEN 20 ELSE 0)

RevenueBonus(text) ==
    IF Contains(text, <<"r","e","p","o","r","t","e","d"," ","r","e","v","e","n","u","e">>) THEN 80
    ELSE IF Contains(text, <<"r","e","v","e","n","u","e">>) /\ ~Contains(text, <<"e","s","t","i","m","a","t","e">>) THEN 50
    ELSE IF Contains(text, <<"r","e","v","e","n","u","e">>) THEN 20
    ELSE 0

IndicatorBonus(text) ==
      (IF Contains(text, <<"b","i","l">>) \/ Contains(text, <<"m","i","l","l","i","o","n">>) THEN 30 ELSE 0)
    + (IF Contains(text, <<"%">>) THEN 20 ELSE 0)
    + (IF Contains(text, <<"e","a","r","n","i","n","g","s">>) THEN 20 ELSE 0)

calculate_data_richness(company) ==
    FieldScore(company) + RevenueBonus(text_content(company))
                        + IndicatorBonus(text_content(company))

(***************************************************************************)
(* extract_financial_data                                                  *)
(***************************************************************************)
\* fixed-point unit of a float: four decimal places
Scale == 10 * 10 * 10 * 10

text_sources(company) ==
       (IF "raw_text" \in DOMAIN company THEN <<company["raw_text"]>> ELSE <<>>)
    \o (IF "context_line" \in DOMAIN company THEN <<company["context_line"]>> ELSE <<>>)
    \o (IF "company_name" \in DOMAIN company THEN <<company["company_name"]>> ELSE <<>>)
    \o (IF "reported_revenue" \in DOMAIN company
        THEN <<<<"R","e","p","o","r","t","e","d"," ","R","e","v","e","n","u","e",":"," ">> \o company["reported_revenue"]>> ELSE <<>>)

combined_text(company) == JoinSpace(text_sources(company))

\* first position >= i of t that holds no character of class (greedy [class]*)
SkipWhile(t, i, class) ==
    IF i > Len(t) THEN i
    ELSE CHOOSE j \in i..(Len(t) + 1) :
            /\ \A k \in i..(j - 1) : t[k] \in class
            /\ j = Len(t) + 1 \/ t[j] \notin class

\* [0-9,] and [:\s]
AmountSet == DigitSet \cup {","}
ColonSpaceSet == SpaceSet \cup {":"}

IsAmountChar(c) == c \in AmountSet

\* position after an optional literal c at i
SkipOptional(t, i, c) == IF i <= Len(t) /\ t[i] = c THEN i + 1 ELSE i

\* position after (?:\.[0-9]+)? at i
FractionEnd(t, i) ==
    IF i + 1 <= Len(t) /\ t[i] = "." /\ IsDigit(t[i + 1])
    THEN SkipWhile(t, i + 1, DigitSet) ELSE i

\* position after [0-9,]+(?:\.[0-9]+)? at i, 0 when it does not match there
AmountEnd(t, i) ==
    IF i <= Len(t) /\ IsAmountChar(t[i])
    THEN FractionEnd(t, SkipWhile(t, i, AmountSet)) ELSE 0

\* position after [0-9]+(?:\.[0-9]+)? at d, 0 when it does not match there
UnsignedEnd(t, d) ==
    IF d <= Len(t) /\ IsDigit(t[d])
    THEN FractionEnd(t, SkipWhile(t, d, DigitSet)) ELSE 0

\* position after [+-]?[0-9]+(?:\.[0-9]+)? at i, 0 when it does not match there
SignedEnd(t, i) ==
    UnsignedEnd(t, IF i <= Len(t) /\ t[i] \in {"+", "-"} THEN i + 1 ELSE i)

(***************************************************************************)
(* The part of a revenue pattern before the amount group; t is the text    *)
(* lowercased (re.IGNORECASE).  The position where the amount group        *)
(* starts, 0 when the prefix does not match at i.                          *)
(***************************************************************************)
\* Revenue[:\s]*\$? at r
LooseRevenueEnd(t, r) ==
    IF MatchAt(t, r, <<"r","e","v","e","n","u","e">>)
    THEN SkipOptional(t, SkipWhile(t, r + 7, ColonSpaceSet), "$") ELSE 0

PrefixEnd(t, i, prefix) ==
    CASE prefix = "reported_colon" ->
           IF MatchAt(t, i, <<"r","e","p","o","r","t","e","d"," ","r","e","v","e","n","u","e",":">>)
           THEN SkipOptional(t, SkipWhile(t, i + 17, SpaceSet), "$") ELSE 0
      [] prefix = "reported_loose" ->
           IF MatchAt(t, i, <<"r","e","p","o","r","t","e","d">>) /\ i + 8 <= Len(t) /\ IsSpace(t[i + 8])
           THEN LooseRevenueEnd(t, SkipWhile(t, i + 8, SpaceSet)) ELSE 0
      [] prefix = "revenue_colon" ->
           IF MatchAt(t, i, <<"r","e","v","e","n","u","e",":">>)
           THEN SkipOptional(t, SkipWhile(t, i + 8, SpaceSet), "$") ELSE 0
      [] prefix = "dollar" ->
           IF MatchAt(t, i, <<"$">>) THEN i + 1 ELSE 0
      [] prefix = "none" -> i

\* (?!\s*Estimate) at i
NotEstimate(t, i) == ~MatchAt(t, SkipWhile(t, i, SpaceSet), <<"e","s","t","i","m","a","t","e">>)

\* Revenue at r: the position after it, 0 when it is not there
RevenueWordEnd(t, r) == IF MatchAt(t, r, <<"r","e","v","e","n","u","e">>) THEN r + 7 ELSE 0

\* the negative lookahead of pattern p at e, when p has one
LookaheadEnd(t, e, p) ==
    IF e = 0 THEN 0
    ELSE IF p.not_estimate /\ ~NotEstimate(t, e) THEN 0
    ELSE e

(***************************************************************************)
(* What follows the unit group at i: nothing, or \s*Revenue, then the      *)
(* negative lookahead when the pattern has one.  The position where the    *)
(* match ends, 0 when it fails.                                            *)
(***************************************************************************)
SuffixEnd(t, i, p) ==
    LookaheadEnd(t, IF p.revenue_after
                    THEN RevenueWordEnd(t, SkipWhile(t, i, SpaceSet)) ELSE i, p)

\* the alternatives of the unit group at i that lead to a match, in order
UnitChoices(t, i, p) ==
    SelectSeq(p.units, LAMBDA u : MatchAt(t, i, u) /\ SuffixEnd(t, i + Len(u), p) /= 0)

billion_units == << <<"b","i","l">>, <<"b","i","l","l","i","o","n">>, <<"b">> >>
million_units == << <<"m","i","l">>, <<"m","i","l","l","i","o","n">>, <<"m">> >>

\* the generic dollar patterns tried before the labeled ones
revenue_patterns_GenericFirst ==
    << [prefix |-> "dollar",         units |-> billion_units, revenue_after |-> FALSE, not_estimate |-> TRUE],
       [prefix |-> "dollar",         units |-> million_units, revenue_after |-> FALSE, not_estimate |-> TRUE],
       [prefix |-> "reported_colon", units |-> billion_units, revenue_after |-> FALSE, not_estimate |-> FALSE],
       [prefix |-> "reported_colon", units |-> million_units, revenue_after |-> FALSE, not_estimate |-> FALSE],
       [prefix |-> "reported_loose", units |-> billion_units, revenue_after |-> FALSE, not_estimate |-> FALSE],
       [prefix |-> "reported_loose", units |-> million_units, revenue_after |-> FALSE, not_estimate |-> FALSE],
       [prefix |-> "revenue_colon",  units |-> billion_units, revenue_after |-> FALSE, not_estimate |-> TRUE],
       [prefix |-> "revenue_colon",  units |-> million_units, revenue_after |-> FALSE, not_estimate |-> TRUE],
       [prefix |-> "none",           units |-> billion_units, revenue_after |-> TRUE,  not_estimate |-> TRUE],
       [prefix |-> "none",           units |-> million_units, revenue_after |-> TRUE,  not_estimate |-> TRUE] >>

revenue_patterns ==
    << [prefix |-> "reported_colon", units |-> billion_units, revenue_after |-> FALSE, not_estimate |-> FALSE],
       [prefix |-> "reported_colon", units |-> million_units, revenue_after |-> FALSE, not_estimate |-> FALSE],
       [prefix |-> "reported_loose", units |-> billion_units, revenue_after |-> FALSE, not_estimate |-> FALSE],
       [prefix |-> "reported_loose", units |-> million_units, revenue_after |-> FALSE, not_estimate |-> FALSE],
       [prefix |-> "revenue_colon",  units |-> billion_units, revenue_after |-> FALSE, not_estimate |-> TRUE],
       [prefix |-> "revenue_colon",  units |-> million_units, revenue_after |-> FALSE, not_estimate |-> TRUE],
       [prefix |-> "dollar",         units |-> billion_units, revenue_after |-> FALSE, not_estimate |-> TRUE],
       [prefix |-> "dollar",         units |-> million_units, revenue_after |-> FALSE, not_estimate |-> TRUE],
       [prefix |-> "none",           units |-> billion_units, revenue_after |-> TRUE,  not_estimate |-> TRUE],
       [prefix |-> "none",           units |-> million_units, revenue_after |-> TRUE,  not_estimate |-> TRUE] >>

(***************************************************************************)
(* The match of revenue pattern p that starts at position i of text (the   *)
(* backtracking matcher's first success), NoMatch when none starts there.  *)
(* The greedy quantifiers have one way to match, since what follows each   *)
(* is of another character class; the unit alternatives are tried in order.*)
(* a: where the amount starts, b: where it ends, u: where the unit starts. *)
(***************************************************************************)
NoMatch == [matched |-> FALSE]

MatchWithUnit(text, t, i, p, a, b, u, unit) ==
    [matched |-> TRUE,
     group0  |-> SubSeq(text, i, SuffixEnd(t, u + Len(unit), p) - 1),
     group1  |-> SubSeq(text, a, b - 1),
     group2  |-> SubSeq(text, u, u + Len(unit) - 1)]

MatchUnits(text, t, i, p, a, b, u, choices) ==
    IF choices = <<>> THEN NoMatch
    ELSE MatchWithUnit(text, t, i, p, a, b, u, choices[1])

MatchAmount(text, t, i, p, a, b) ==
    IF b = 0 THEN NoMatch
    ELSE MatchUnits(text, t, i, p, a, b, SkipWhile(t, b, SpaceSet),
                    UnitChoices(t, SkipWhile(t, b, SpaceSet), p))

MatchPrefix(text, t, i, p, a) ==
    IF a = 0 THEN NoMatch ELSE MatchAmount(text, t, i, p, a, AmountEnd(t, a))

RevenueMatchAt(text, t, i, p) ==
    MatchPrefix(text, t, i, p, PrefixEnd(t, i, p.prefix))

Least(S) == CHOOSE i \in S : \A j \in S : i <= j

\* re.search(pattern, text, re.IGNORECASE): the leftmost match
RevenueSearchFrom(text, t, p, starts) ==
    IF starts = {} THEN NoMatch ELSE RevenueMatchAt(text, t, Least(starts), p)

RevenueSearch(text, t, p) ==
    RevenueSearchFrom(text, t, p,
        {i \in 1..(Len(text) + 1) : RevenueMatchAt(text, t, i, p).matched})

growth_patterns == << "percent_sign", "percent_word", "growth_label" >>

GrowthUnit(pattern) == IF pattern = "percent_word" THEN <<"p","e","r","c","e","n","t">> ELSE <<"%">>

GrowthMatchUnit(text, t, i, a, b, u, w) ==
    IF MatchAt(t, u, w)
    THEN [matched |-> TRUE,
          group0  |-> SubSeq(text, i, u + Len(w) - 1),
          group1  |-> SubSeq(text, a, b - 1)]
    ELSE NoMatch

GrowthMatchNumber(text, t, i, pattern, a, b) ==
    IF b = 0 THEN NoMatch
    ELSE GrowthMatchUnit(text, t, i, a, b, SkipWhile(t, b, SpaceSet), GrowthUnit(pattern))

GrowthMatchPrefix(text, t, i, pattern, a) ==
    IF a = 0 THEN NoMatch
    ELSE GrowthMatchNumber(text, t, i, pattern, a, SignedEnd(t, a))

GrowthMatchAt(text, t, i, pattern) ==
    GrowthMatchPrefix(text, t, i, pattern,
        IF pattern = "growth_label"
        THEN IF MatchAt(t, i, <<"g","r","o","w","t","h",":">>) THEN SkipWhile(t, i + 7, SpaceSet) ELSE 0
        ELSE i)

GrowthSearchFrom(text, t, pattern, starts) ==
    IF starts = {} THEN NoMatch ELSE GrowthMatchAt(text, t, Least(starts), pattern)

GrowthSearch(text, t, pattern) ==
    GrowthSearchFrom(text, t, pattern,
        {i \in 1..(Len(text) + 1) : GrowthMatchAt(text, t, i, pattern).matched})

\* the first entry of a list of match results that matched; 0 when none did
FirstMatching(results) ==
    IF \E k \in DOMAIN results : results[k].matched
    THEN Least({k \in DOMAIN results : results[k].matched})
    ELSE 0

(***************************************************************************)
(* float(s): the value in Scale units; raises ValueError (ok |-> FALSE)    *)
(* when s holds no digit.  Digits past the fourth decimal are dropped.     *)
(***************************************************************************)
DigitValue(c) == IndexIn(c, Digits) - 1

RECURSIVE IntValue(_)
IntValue(ds) ==
    IF ds = <<>> THEN 0
    ELSE 10 * IntValue(SubSeq(ds, 1, Len(ds) - 1)) + DigitValue(ds[Len(ds)])

FractionValue(ds) == IntValue(SubSeq(ds \o <<"0","0","0","0">>, 1, 4))

ParseParts(neg, int, frac, one_dot) ==
    IF /\ one_dot
       /\ int \o frac /= <<>>
       /\ \A i \in DOMAIN (int \o frac) : IsDigit((int \o frac)[i])
    THEN [ok |-> TRUE,
          value |-> (IF neg THEN 0 - 1 ELSE 1) * (IntValue(int) * Scale + FractionValue(frac))]
    ELSE [ok |-> FALSE]

ParseUnsigned(neg, body, dot) ==
    ParseParts(neg, SubSeq(body, 1, dot - 1), SubSeq(body, dot + 1, Len(body)),
               Cardinality({i \in DOMAIN body : body[i] = "."}) <= 1)

ParseSigned(neg, body) ==
    ParseUnsigned(neg, body,
        IF \E i \in DOMAIN body : body[i] = "."
        THEN Least({i \in DOMAIN body : body[i] = "."}) ELSE Len(body) + 1)

ParseFloat(s) ==
    ParseSigned(s /= <<>> /\ s[1] = "-",
                IF s /= <<>> /\ s[1] \in {"+", "-"} THEN Tail(s) ELSE s)

\* str.replace(',', '')
RemoveCommas(s) == SelectSeq(s, LAMBDA c : c /= ",")

\* the dict with no key; extract_financial_data returns None in its place
EmptyDict == <<>>

\* only the units that start with bil count as billions
IsBillion_WordOnly(unit) == MatchAt(unit, 1, <<"b","i","l">>)

\* unit.startswith('bil') or unit == 'b'
IsBillion(unit) == MatchAt(unit, 1, <<"b","i","l">>) \/ unit = <<"b">>

RevenueOfAmount(m, amount) ==
    IF ~amount.ok THEN [raised |-> TRUE, data |-> EmptyDict]
    ELSE [raised |-> FALSE,
          data |-> ("revenue_millions" :>
                       (IF IsBillion(Lower(m.group2))
                        THEN amount.value * 1000 ELSE amount.value))
                   @@ ("revenue_raw" :> m.group0)]

RevenueOfMatch(results, k) ==
    IF k = 0 THEN [raised |-> FALSE, data |-> EmptyDict]
    ELSE RevenueOfAmount(results[k], ParseFloat(RemoveCommas(results[k].group1)))

RevenueOfResults(results) == RevenueOfMatch(results, FirstMatching(results))

\* re.search(pattern, combined_text, re.IGNORECASE) for each pattern: t is the
\* text lowercased
RevenueMatches(text, t) ==
    [n \in DOMAIN revenue_patterns |-> RevenueSearch(text, t, revenue_patterns[n])]

RevenueData(text) == RevenueOfResults(RevenueMatches(text, Lower(text)))

GrowthOfMatch(results, k) ==
    IF k = 0 THEN EmptyDict
    ELSE ("growth_rate" :> ParseFloat(results[k].group1).value)
         @@ ("growth_raw" :> results[k].group0)

GrowthOfResults(results) == GrowthOfMatch(results, FirstMatching(results))

GrowthMatches(text, t) ==
    [n \in DOMAIN growth_patterns |-> GrowthSearch(text, t, growth_patterns[n])]

GrowthData(text) == GrowthOfResults(GrowthMatches(text, Lower(text)))

\* raised: a ValueError of float() leaves the function; value: the dict
\* returned, EmptyDict for None
FinancialResult(revenue, growth) ==
    IF revenue.raised THEN [raised |-> TRUE, value |-> EmptyDict]
    ELSE [raised |-> FALSE, value |-> revenue.data @@ growth]

extract_financial_data(company) ==
    FinancialResult(RevenueData(combined_text(company)),
                    GrowthData(combined_text(company)))

(***************************************************************************)
(* State.  heap holds the dict objects (candidate records, cleaned         *)
(* records, filtered records) by identity; lists hold identities.          *)
(***************************************************************************)
VARIABLES
    heap,                    \* object identity -> dict
    pc,                      \* where the run is
    companies,               \* the candidate list given to deduplicate_companies
    scan_i,                  \* position of the first loop of deduplicate_companies
    symbol_to_best_company,  \* entries [symbol, company, score] in insertion order
    clean_i,                 \* position of the second loop of deduplicate_companies
    unique_companies,        \* the list deduplicate_companies builds
    given,                   \* the candidates' dicts as the running call was entered
    calls,                   \* completed deduplicate_companies calls, oldest first
    tracking_file,           \* tracking_list.txt: [exists, lines, error_at]
    tracking_arg,            \* the tracking_list argument of the filter: [given, symbols]
    tracking_list,           \* the normalised set the filter tests membership in
    filter_i,                \* position of the loop of filter_companies_by_criteria
    filtered_companies,      \* the list filter_companies_by_criteria builds
    scores,                  \* identity -> what calculate_data_richness returned for it
    financial,               \* identity -> outcome of extract_financial_data for it
    page,                    \* what the driver shows: [tables, elements, body_text, page_source]
    earnings_data,           \* the dict extract_earnings_data returns
    filtered_data,           \* what is saved to earnings_filtered_<date>.json, if anything
    faults,                  \* the calls of the driver and of the file system that raise in this run
    exception,               \* str(e) of the exception on its way to extract_earnings_data's except
    scraper,                 \* run_earnings_scraper's scraper: None or the object constructed
    job_data,                \* data: what scrape_calendar returned to run_earnings_scraper
    quits,                   \* the number of calls of driver.quit()
    log                      \* the records run_earnings_scraper has logged: [level, message]

dedupVars == << heap, pc, companies, scan_i, symbol_to_best_company, clean_i,
                unique_companies, given, calls >>

\* the variables of deduplicate_companies but pc
dedupData == << heap, companies, scan_i, symbol_to_best_company, clean_i,
                unique_companies, given, calls >>

filterVars == << tracking_file, tracking_arg, tracking_list, filter_i,
                 filtered_companies >>

recordVars == << scores, financial >>

\* the variables of run_earnings_scraper
jobVars == << scraper, job_data, quits, log >>

\* what deduplicate_companies does not touch
pipelineVars == << page, earnings_data, filtered_data, faults, exception >>

\* the variables of extract_earnings_data but exception
pipelineData == << page, earnings_data, filtered_data, faults >>

otherVars == << filterVars, recordVars, jobVars, pipelineVars >>

vars == << dedupVars, otherVars >>

\* tracking_list.txt does not exist; tracking_list=None
NoFile == [exists |-> FALSE, lines |-> <<>>, error_at |-> 0]
NoArg == [given |-> FALSE, symbols |-> {}]

\* no exception is on its way
NoException == ""

\* str(e) of the ValueError float('') raises in extract_financial_data
float_error == "could not convert string to float: ''"

\* a page without content
NoPage == [tables |-> <<>>, elements |-> <<>>, body_text |-> <<>>, page_source |-> <<>>]

\* identity of the next dict created
NewId(h) == Cardinality(DOMAIN h) + 1

\* the dicts behind a list of identities
Contents(h, ids) == [k \in DOMAIN ids |-> h[ids[k]]]

(***************************************************************************)
(* deduplicate_companies, first loop: one candidate per step.              *)
(***************************************************************************)
\* the symbol uppercased, its whitespace kept
NormalizeSymbol_NoStrip(company) == Upper(Get(company, "symbol", <<>>))

\* company.get('symbol', '').upper().strip()
NormalizeSymbol(company) == Strip(Upper(Get(company, "symbol", <<>>)))

\* the lexicon check left out
IsFalsePositive_Never(symbol) == FALSE

IsFalsePositive(symbol) == symbol \in false_positives

\* the `continue` conditions of the first loop
IsRejected(symbol) ==
    \/ symbol = <<>>
    \/ Len(symbol) > 5
    \/ ~MatchesTicker(symbol)
    \/ IsFalsePositive(symbol)

HasSymbol(best, symbol) == \E k \in DOMAIN best : best[k].symbol = symbol
EntryOf(best, symbol) == CHOOSE k \in DOMAIN best : best[k].symbol = symbol

\* >= in place of >: the last candidate seen wins a tie
IsBetter_OrEqual(data_score, best_score) == data_score >= best_score

\* no comparison: the last candidate seen is kept
IsBetter_Always(data_score, best_score) == TRUE

\* data_score > symbol_to_best_company[symbol]['score']
IsBetter(data_score, best_score) == data_score > best_score

\* symbol_to_best_company[symbol] = {'company': company, 'score': data_score}:
\* a key already present keeps its place in the dict's order
Store(best, symbol, id, data_score) ==
    LET entry == [symbol |-> symbol, company |-> id, score |-> data_score]
    IN  IF HasSymbol(best, symbol)
        THEN [best EXCEPT ![EntryOf(best, symbol)] = entry]
        ELSE Append(best, entry)

ScanCandidate(best, id, symbol, data_score) ==
    IF IsRejected(symbol) THEN best
    ELSE IF ~HasSymbol(best, symbol)
            \/ IsBetter(data_score, best[EntryOf(best, symbol)].score)
    THEN Store(best, symbol, id, data_score)
    ELSE best

ScanOne(best, h, id) ==
    ScanCandidate(best, id, NormalizeSymbol(h[id]), calculate_data_richness(h[id]))

DedupBegin ==
    /\ scan_i' = 1
    /\ symbol_to_best_company' = <<>>
    /\ clean_i' = 1
    /\ unique_companies' = <<>>
    /\ given' = Contents(heap, companies)
    /\ pc' = IF companies = <<>> THEN "clean" ELSE "scan"
    /\ UNCHANGED << heap, companies, calls >>

\* deduplicate_companies(companies) is entered
DedupCall ==
    /\ pc = "candidates"
    /\ DedupBegin
    /\ UNCHANGED otherVars

DedupScanStep ==
    /\ pc = "scan"
    /\ scan_i <= Len(companies)
    /\ symbol_to_best_company' = ScanOne(symbol_to_best_company, heap, companies[scan_i])
    /\ scan_i' = scan_i + 1
    /\ pc' = IF scan_i = Len(companies) THEN "clean" ELSE "scan"
    /\ UNCHANGED << heap, companies, clean_i, unique_companies, given, calls >>
    /\ UNCHANGED otherVars

(***************************************************************************)
(* deduplicate_companies, second loop: one retained symbol per step.       *)
(***************************************************************************)
RawTextCap == 500

OptionalField(present, key, value) == IF present THEN key :> value ELSE EmptyDict

\* raw_text kept whatever its length
CleanedFields_KeepLong(symbol, company) ==
    [symbol |-> symbol, source |-> Get(company, "source", "unknown")]
    @@ OptionalField(Truthy(company, "company_name"), "company_name",
                     Strip(Get(company, "company_name", <<>>)))
    @@ OptionalField(Truthy(company, "raw_text"),
                     "raw_text", Strip(Get(company, "raw_text", <<>>)))
    @@ OptionalField(Truthy(company, "context_line"), "context_line",
                     Strip(Get(company, "context_line", <<>>)))

\* cleaned_company before the financial fields are added
CleanedFields(symbol, company) ==
    [symbol |-> symbol, source |-> Get(company, "source", "unknown")]
    @@ OptionalField(Truthy(company, "company_name"), "company_name",
                     Strip(Get(company, "company_name", <<>>)))
    @@ OptionalField(Truthy(company, "raw_text")
                        /\ Len(Get(company, "raw_text", <<>>)) < RawTextCap,
                     "raw_text", Strip(Get(company, "raw_text", <<>>)))
    @@ OptionalField(Truthy(company, "context_line"), "context_line",
                     Strip(Get(company, "context_line", <<>>)))

\* cleaned_company.update(financial_data)
Update(d, other) == other @@ d

\* the cleaned fields written into the candidate itself
CleanedObject_Alias(candidate, fresh) == candidate

\* the object the cleaned fields are written to: cleaned_company = {...} is a
\* new dict, not the candidate
CleanedObject(candidate, fresh) == fresh

CallRecord(outcome, output) ==
    [ input_ids |-> companies,
      input     |-> given,
      best      |-> symbol_to_best_company,
      outcome   |-> outcome,
      output    |-> output ]

\* one pass of the second loop; a ValueError of extract_financial_data leaves
\* deduplicate_companies (the dict just built is then unreachable)
CleanInto(best_data, company, financial_data, target) ==
    IF financial_data.raised
    THEN /\ pc' = "raised"
         /\ exception' = float_error
         /\ calls' = Append(calls, CallRecord("raised", <<>>))
         /\ UNCHANGED << heap, clean_i, unique_companies >>
    ELSE /\ heap' = (target :> Update(CleanedFields(best_data.symbol, company),
                                      financial_data.value)) @@ heap
         /\ unique_companies' = Append(unique_companies, target)
         /\ clean_i' = clean_i + 1
         /\ UNCHANGED << pc, calls, exception >>

CleanOne(best_data) ==
    CleanInto(best_data, heap[best_data.company],
              extract_financial_data(heap[best_data.company]),
              CleanedObject(best_data.company, NewId(heap)))

DedupCleanStep ==
    /\ pc = "clean"
    /\ clean_i <= Len(symbol_to_best_company)
    /\ CleanOne(symbol_to_best_company[clean_i])
    /\ UNCHANGED << companies, scan_i, symbol_to_best_company, given >>
    /\ UNCHANGED << filterVars, recordVars, jobVars, pipelineData >>

\* return unique_companies
DedupReturn ==
    /\ pc = "clean"
    /\ clean_i > Len(symbol_to_best_company)
    /\ calls' = Append(calls, CallRecord("returned", Contents(heap, unique_companies)))
    /\ pc' = "deduped"
    /\ UNCHANGED << heap, companies, scan_i, symbol_to_best_company, clean_i,
                    unique_companies, given >>
    /\ UNCHANGED otherVars

(***************************************************************************)
(* The caller of the Deduplicator runs it a second time: with the same     *)
(* list, or with the same candidates concatenated in another order.        *)
(***************************************************************************)
MaxCands == 2

Orderings(n) == {p \in [1..n -> 1..n] : \A a, b \in 1..n : p[a] = p[b] => a = b}

DedupAgain ==
    /\ pc \in {"deduped", "raised"}
    /\ Len(calls) = 1
    /\ DedupBegin
    /\ exception' = NoException
    /\ UNCHANGED << filterVars, recordVars, jobVars, pipelineData >>

Reorder ==
    /\ pc \in {"deduped", "raised"}
    /\ Len(calls) = 1
    /\ \E p \in Orderings(Len(companies)) :
          /\ \E k \in DOMAIN companies : p[k] /= k
          /\ companies' = [k \in DOMAIN companies |-> companies[p[k]]]
    /\ pc' = "candidates"
    /\ exception' = NoException
    /\ UNCHANGED << heap, scan_i, symbol_to_best_company, clean_i, unique_companies,
                    given, calls >>
    /\ UNCHANGED << filterVars, recordVars, jobVars, pipelineData >>

\* candidate records as the six strategies emit them
Candidates ==
    { [symbol |-> <<"A","A","P","L">>, company_name |-> <<"A","p","p","l","e"," ","I","n","c",".">>,
       reported_revenue |-> <<"$","9","5"," ","B","i","l">>, source |-> "table_1_row_1"],
      [symbol |-> <<" ","a","a","p","l">>, company |-> <<"A","p","p","l","e">>, source |-> "[data-symbol]"],
      [symbol |-> <<"A","A","P","L">>, source |-> "page_source_json"],
      [symbol |-> <<"A","A","P","L">>, raw_text |-> <<" ","A","A","P","L"," ","+","1","2","%"," ">>, source |-> ".stock"],
      [symbol |-> <<"M","S","F","T">>, context_line |-> <<"M","S","F","T"," ","E","P","S"," ","$",",","B">>, source |-> "text_pattern"],
      [symbol |-> <<"M","S","F","T">>, raw_text |-> <<"M","S","F","T"," ","R","e","v"," ","5","%">>, source |-> ".earning"],
      [symbol |-> <<"T","H","E">>, raw_text |-> <<"T","H","E"," ","e","a","r","n","i","n","g","s">>, source |-> "*[class*='cal']"],
      [symbol |-> <<"e","s","t","\n">>, source |-> "[data-symbol]"],
      [symbol |-> <<"Q","1">>, source |-> "[data-symbol]"],
      [symbol |-> <<"G","O","O","G","L","E">>, source |-> "[data-symbol]"],
      [eps |-> <<"1",".","2">>, source |-> "[data-eps]"] }

CandidateLists == UNION {[1..n -> Candidates] : n \in 0..MaxCands}

\* no filter call is in progress
FilterIdle ==
    /\ tracking_file = NoFile
    /\ tracking_arg = NoArg
    /\ tracking_list = {}
    /\ filter_i = 1
    /\ filtered_companies = <<>>

\* no function has been called on a record alone
RecordIdle ==
    /\ scores = <<>>
    /\ financial = <<>>

\* run_earnings_scraper is not running
\* data = None
NoData == [none |-> TRUE]

JobIdle ==
    /\ scraper = "None"
    /\ job_data = NoData
    /\ quits = 0
    /\ log = <<>>

\* extract_earnings_data is not running
PipelineIdle ==
    /\ page = NoPage
    /\ earnings_data = EmptyDict
    /\ filtered_data = EmptyDict
    /\ faults = {}
    /\ exception = NoException

Init ==
    /\ \E cs \in CandidateLists :
          /\ heap = cs
          /\ companies = [k \in DOMAIN cs |-> k]
    /\ pc = "candidates"
    /\ scan_i = 1
    /\ symbol_to_best_company = <<>>
    /\ clean_i = 1
    /\ unique_companies = <<>>
    /\ given = <<>>
    /\ calls = <<>>
    /\ FilterIdle
    /\ RecordIdle
    /\ JobIdle
    /\ PipelineIdle

Next ==
    \/ DedupCall
    \/ DedupScanStep
    \/ DedupCleanStep
    \/ DedupReturn
    \/ DedupAgain
    \/ Reorder

Spec == Init /\ [][Next]_vars
(***************************************************************************)
(* Properties of the Deduplicator, over the completed calls.               *)
(***************************************************************************)
\* a candidate's symbol trimmed, then uppercased
TrimmedUpper(candidate) == Upper(Strip(Get(candidate, "symbol", <<>>)))

\* ^[A-Z]{1,5}$ and outside the reserved lexicon
IsValidSymbol(s) ==
    /\ Len(s) \in 1..5
    /\ \A n \in DOMAIN s : s[n] \in UpperSet
    /\ s \notin false_positives

ReturnedCalls == {c \in DOMAIN calls : calls[c].outcome = "returned"}

SymbolsOf(records) == {records[k].symbol : k \in DOMAIN records}

ValidSymbolsOf(candidates) ==
    {s \in {TrimmedUpper(candidates[k]) : k \in DOMAIN candidates} : IsValidSymbol(s)}

\* the positions of a call's input whose candidate normalizes to symbol s
PositionsOf(call, s) == {q \in DOMAIN call.input : TrimmedUpper(call.input[q]) = s}

\* the position in a call's input of the candidate with identity id
PositionOfId(call, id) == CHOOSE q \in DOMAIN call.input_ids : call.input_ids[q] = id

ScoreAt(call, q) == calculate_data_richness(call.input[q])

\* C1: a returned call's output holds exactly one record per distinct valid
\* normalized symbol of its input: no two records share a symbol, and the
\* symbols of the output are the valid normalized symbols of the candidates.
C1_OnePerValidSymbol ==
    \A c \in ReturnedCalls :
       /\ \A a, b \in DOMAIN calls[c].output :
             calls[c].output[a].symbol = calls[c].output[b].symbol => a = b
       /\ SymbolsOf(calls[c].output) = ValidSymbolsOf(calls[c].input)

\* two candidates whose symbols differ in case and whitespace were merged
C1_Witness ==
    \E c \in ReturnedCalls :
       /\ Len(calls[c].output) = 1
       /\ \E a, b \in DOMAIN calls[c].input :
             /\ Get(calls[c].input[a], "symbol", <<>>) /= Get(calls[c].input[b], "symbol", <<>>)
             /\ TrimmedUpper(calls[c].input[a]) = calls[c].output[1].symbol
             /\ TrimmedUpper(calls[c].input[b]) = calls[c].output[1].symbol

Reserved3 == { <<"T","H","E">>, <<"E","S","T">>, <<"Q","1">> }

\* C2: every record a call returns has a symbol of one to five capital letters
\* that is not in the reserved lexicon, and no candidate whose symbol is THE,
\* EST or Q1 (in any case, with any whitespace around) is kept for a record.
C2_SymbolValidity ==
    \A c \in ReturnedCalls :
       /\ \A k \in DOMAIN calls[c].output : IsValidSymbol(calls[c].output[k].symbol)
       /\ \A q \in DOMAIN calls[c].input :
             TrimmedUpper(calls[c].input[q]) \in Reserved3 =>
                /\ TrimmedUpper(calls[c].input[q]) \notin SymbolsOf(calls[c].output)
                /\ \A k \in DOMAIN calls[c].best :
                      calls[c].best[k].company /= calls[c].input_ids[q]

\* a call given a reserved symbol beside a valid one returned the valid one
C2_Witness ==
    \E c \in ReturnedCalls :
       /\ calls[c].output /= <<>>
       /\ \E q \in DOMAIN calls[c].input : TrimmedUpper(calls[c].input[q]) \in Reserved3

\* the record at place k of a returned call's output is built from the
\* candidate at position q of the input
BuiltFrom(call, k, q) ==
    /\ call.best[k].company = call.input_ids[q]
    /\ call.output[k].symbol = TrimmedUpper(call.input[q])
    /\ call.output[k].source = Get(call.input[q], "source", "unknown")
    /\ ("company_name" \in DOMAIN call.output[k]) = Truthy(call.input[q], "company_name")

\* q has the maximum score among the candidates of its symbol, and is the
\* earliest with it
IsFirstMaximum(call, q) ==
    \A r \in PositionsOf(call, TrimmedUpper(call.input[q])) :
       /\ ScoreAt(call, r) <= ScoreAt(call, q)
       /\ r < q => ScoreAt(call, r) < ScoreAt(call, q)

\* C3: each record of the output is built from the candidate of its symbol
\* that has the maximum richness score over the whole input list, the
\* earliest one in the list when several share the maximum.
C3_MaxScoreFirstSeen ==
    \A c \in ReturnedCalls :
       /\ Len(calls[c].output) = Len(calls[c].best)
       /\ \A k \in DOMAIN calls[c].output :
             /\ BuiltFrom(calls[c], k, PositionOfId(calls[c], calls[c].best[k].company))
             /\ IsFirstMaximum(calls[c], PositionOfId(calls[c], calls[c].best[k].company))

\* two candidates of one symbol tied at the maximum, with different sources,
\* and the record came from the first
C3_Witness ==
    \E c \in ReturnedCalls :
       \E q, r \in DOMAIN calls[c].input :
          /\ q < r
          /\ TrimmedUpper(calls[c].input[q]) = TrimmedUpper(calls[c].input[r])
          /\ ScoreAt(calls[c], q) = ScoreAt(calls[c], r)
          /\ calls[c].input[q].source /= calls[c].input[r].source
          /\ \E k \in DOMAIN calls[c].output : BuiltFrom(calls[c], k, q)

TwoCalls == Len(calls) = 2

RecordsOf(call) == {call.output[k] : k \in DOMAIN call.output}

\* C4 as claimed: the set of records (all fields) the Deduplicator returns is
\* the same for every ordering of the candidate list.
C4_OrderInsensitive ==
    (TwoCalls /\ ReturnedCalls = {1, 2}) => RecordsOf(calls[1]) = RecordsOf(calls[2])

KeptScores(call) == {<<call.best[k].symbol, call.best[k].score>> : k \in DOMAIN call.best}

\* two different candidates of one symbol share that symbol's maximum score
HasTie(call) ==
    \E q, r \in DOMAIN call.input :
       /\ q /= r
       /\ IsValidSymbol(TrimmedUpper(call.input[q]))
       /\ TrimmedUpper(call.input[q]) = TrimmedUpper(call.input[r])
       /\ ScoreAt(call, q) = ScoreAt(call, r)
       /\ \A t \in PositionsOf(call, TrimmedUpper(call.input[q])) :
             ScoreAt(call, t) <= ScoreAt(call, q)

\* C4 amended: for every ordering of the candidate list the Deduplicator keeps
\* the same symbols with the same richness score each; and when no two
\* candidates of a symbol tie at its maximum score, the outcome and the set
\* of records are the same too.
C4_SymbolsAndScoresOrderInsensitive ==
    TwoCalls =>
       /\ KeptScores(calls[1]) = KeptScores(calls[2])
       /\ ~HasTie(calls[1]) =>
             /\ calls[1].outcome = calls[2].outcome
             /\ RecordsOf(calls[1]) = RecordsOf(calls[2])

\* the second call ran on a reordered list in which one symbol has candidates
\* of different scores, and both calls returned
C4_Witness ==
    /\ TwoCalls
    /\ ReturnedCalls = {1, 2}
    /\ calls[1].input_ids /= calls[2].input_ids
    /\ \E q, r \in DOMAIN calls[1].input :
          /\ TrimmedUpper(calls[1].input[q]) = TrimmedUpper(calls[1].input[r])
          /\ IsValidSymbol(TrimmedUpper(calls[1].input[q]))
          /\ ScoreAt(calls[1], q) < ScoreAt(calls[1], r)

\* C5: a second run of the Deduplicator on the same candidate list ends as the
\* first did, with the same records in the same order, and no step of a run
\* changes a candidate record it was given.
C5_RepeatableAndFrame ==
    /\ pc \in {"scan", "clean", "deduped", "raised"} => Contents(heap, companies) = given
    /\ \A c \in DOMAIN calls : Contents(heap, calls[c].input_ids) = calls[c].input
    /\ (TwoCalls /\ calls[1].input_ids = calls[2].input_ids) =>
          /\ calls[1].outcome = calls[2].outcome
          /\ calls[1].output = calls[2].output

\* two runs on the same list have returned records
C5_Witness ==
    /\ TwoCalls
    /\ calls[1].input_ids = calls[2].input_ids
    /\ ReturnedCalls = {1, 2}
    /\ Len(calls[2].output) = 2


(***************************************************************************)
(* load_tracking_list: the lines of tracking_list.txt, trimmed and         *)
(* uppercased; empty lines and lines starting with # are skipped.          *)
(***************************************************************************)
\* line.strip().upper()
TrackingLine(line) == Upper(Strip(line))

\* if line and not line.startswith('#')
IsTrackingEntry(line) == line /= <<>> /\ line[1] /= "#"

\* the lines the for loop reads before an exception ends it (0: none raised)
LinesRead(file) ==
    IF file.error_at = 0 THEN DOMAIN file.lines ELSE 1..(file.error_at - 1)

\* the set load_tracking_list returns
load_tracking_list(file) ==
    IF ~file.exists THEN {}
    ELSE {TrackingLine(file.lines[k]) :
             k \in {j \in LinesRead(file) : IsTrackingEntry(TrackingLine(file.lines[j]))}}

\* tracking_list = self.load_tracking_list()
LoadTrackingList ==
    /\ pc = "load_tracking"
    /\ tracking_arg' = [given |-> TRUE, symbols |-> load_tracking_list(tracking_file)]
    /\ pc' = "filter"
    /\ UNCHANGED << heap, companies, scan_i, symbol_to_best_company, clean_i,
                    unique_companies, given, calls >>
    /\ UNCHANGED << tracking_file, tracking_list, filter_i, filtered_companies >>
    /\ UNCHANGED << recordVars, jobVars, pipelineVars >>

(***************************************************************************)
(* filter_companies_by_criteria and meets_criteria.  Amounts are in        *)
(* 1/Scale of a million, rates in 1/Scale of a percent.                    *)
(***************************************************************************)
\* (min_revenue, min_growth)
criteria == << <<10, 50>>, <<100, 30>>, <<500, 25>>, <<1000, 20>>, <<5000, 15>> >>

\* the comparisons taken as >=
meets_criteria_NonStrict(revenue, growth) ==
    \E k \in DOMAIN criteria :
        revenue >= criteria[k][1] * Scale /\ growth >= criteria[k][2] * Scale

meets_criteria(revenue, growth) ==
    \E k \in DOMAIN criteria :
        revenue > criteria[k][1] * Scale /\ growth > criteria[k][2] * Scale

\* set(symbol.upper().strip() for symbol in tracking_list), set() for None
NormalizeTrackingList(arg) ==
    IF ~arg.given THEN {} ELSE {Strip(Upper(s)) : s \in arg.symbols}

\* the criteria tested before the tracking list
FilterReason_CriteriaFirst(symbol, revenue, growth, tracked) ==
    IF meets_criteria(revenue, growth) THEN "revenue_growth_criteria"
    ELSE IF symbol \in tracked THEN "tracking_list"
    ELSE "excluded"

\* the reason the loop body appends the company with, "excluded" if it does not
FilterReason(symbol, revenue, growth, tracked) ==
    IF symbol \in tracked THEN "tracking_list"
    ELSE IF meets_criteria(revenue, growth) THEN "revenue_growth_criteria"
    ELSE "excluded"

format_filtered_company(company, reason) ==
    [ ticker           |-> Get(company, "symbol", <<>>),
      name             |-> Get(company, "company_name", <<>>),
      revenue_millions |-> Get(company, "revenue_millions", 0),
      revenue_raw      |-> Get(company, "revenue_raw", <<>>),
      growth_rate      |-> Get(company, "growth_rate", 0),
      growth_raw       |-> Get(company, "growth_raw", <<>>),
      source           |-> Get(company, "source", ""),
      filter_reason    |-> reason ]

\* filter_companies_by_criteria(companies, tracking_list) is entered
FilterCall ==
    /\ pc = "filter"
    /\ tracking_list' = NormalizeTrackingList(tracking_arg)
    /\ filter_i' = 1
    /\ filtered_companies' = <<>>
    /\ pc' = "filtering"
    /\ UNCHANGED << heap, companies, scan_i, symbol_to_best_company, clean_i,
                    unique_companies, given, calls >>
    /\ UNCHANGED << tracking_file, tracking_arg >>
    /\ UNCHANGED << recordVars, jobVars, pipelineVars >>

\* the record of a company that is kept is appended twice
FilterAppend_Twice(company, reason, target) ==
    IF reason = "excluded"
    THEN UNCHANGED << heap, filtered_companies >>
    ELSE /\ heap' = (target :> format_filtered_company(company, reason)) @@ heap
         /\ filtered_companies' = filtered_companies \o << target, target >>

\* filtered_companies.append(self.format_filtered_company(company, reason=...))
FilterAppend(company, reason, target) ==
    IF reason = "excluded"
    THEN UNCHANGED << heap, filtered_companies >>
    ELSE /\ heap' = (target :> format_filtered_company(company, reason)) @@ heap
         /\ filtered_companies' = Append(filtered_companies, target)

FilterOne(company) ==
    FilterAppend(company,
                 FilterReason(Get(company, "symbol", <<>>),
                              Get(company, "revenue_millions", 0),
                              Get(company, "growth_rate", 0),
                              tracking_list),
                 NewId(heap))

\* one pass of the loop over companies
FilterStep ==
    /\ pc = "filtering"
    /\ filter_i <= Len(unique_companies)
    /\ FilterOne(heap[unique_companies[filter_i]])
    /\ filter_i' = filter_i + 1
    /\ UNCHANGED << pc, companies, scan_i, symbol_to_best_company, clean_i,
                    unique_companies, given, calls >>
    /\ UNCHANGED << tracking_file, tracking_arg, tracking_list >>
    /\ UNCHANGED << recordVars, jobVars, pipelineVars >>

\* return filtered_companies
FilterReturn ==
    /\ pc = "filtering"
    /\ filter_i > Len(unique_companies)
    /\ pc' = "filtered"
    /\ UNCHANGED << heap, companies, scan_i, symbol_to_best_company, clean_i,
                    unique_companies, given, calls >>
    /\ UNCHANGED filterVars
    /\ UNCHANGED << recordVars, jobVars, pipelineVars >>

(***************************************************************************)
(* The filter on canonical records: one record per symbol, the amounts     *)
(* of the last one around the bounds of every tier.                        *)
(***************************************************************************)
MaxRecords == 2

\* zero, a negative amount, every bound and every bound plus 0.0001
RevenueValues ==
    {0, 0 - 5 * Scale} \cup {criteria[k][1] * Scale : k \in DOMAIN criteria}
                       \cup {criteria[k][1] * Scale + 1 : k \in DOMAIN criteria}

GrowthValues ==
    {0, 0 - 5 * Scale} \cup {criteria[k][2] * Scale : k \in DOMAIN criteria}
                       \cup {criteria[k][2] * Scale + 1 : k \in DOMAIN criteria}

\* an amount a record carries, << >> when the key is absent
Optional(values) == {<<>>} \cup {<<v>> : v \in values}

RecordSymbols == << <<"A","A","P","L">>, <<"M","S","F","T">>, <<"N","V","D","A">> >>

CanonicalRecord(symbol, revenue, growth) ==
    [symbol |-> symbol, source |-> "table_1_row_1"]
    @@ OptionalField(revenue /= <<>>, "revenue_millions", revenue[1])
    @@ OptionalField(revenue /= <<>>, "revenue_raw", <<"$","1"," ","M","i","l">>)
    @@ OptionalField(growth /= <<>>, "growth_rate", growth[1])
    @@ OptionalField(growth /= <<>>, "growth_raw", <<"1","%">>)

\* every amount for the last record of a list, a coarse choice for those before
CanonicalRecords(k) ==
    {CanonicalRecord(RecordSymbols[k], r, g) :
        r \in Optional(RevenueValues), g \in Optional(GrowthValues)}

EarlierRecords(k) ==
    {CanonicalRecord(RecordSymbols[k], r, g) :
        r \in Optional({criteria[2][1] * Scale + 1}),
        g \in Optional({criteria[2][2] * Scale + 1})}

RECURSIVE EarlierLists(_)
EarlierLists(n) ==
    IF n = 0 THEN {<<>>}
    ELSE {Append(rs, r) : rs \in EarlierLists(n - 1), r \in EarlierRecords(n)}

CanonicalLists ==
    UNION { {Append(rs, r) : rs \in EarlierLists(n - 1), r \in CanonicalRecords(n)} :
               n \in 1..MaxRecords }
    \cup {<<>>}

TrackingFiles ==
    { NoFile,
      [exists |-> TRUE, lines |-> <<>>, error_at |-> 0],
      [exists |-> TRUE, lines |-> << <<" ","a","a","p","l"," ","\n">>, <<"#"," ","M","S","F","T","\n">>, <<"\n">> >>, error_at |-> 0],
      [exists |-> TRUE, lines |-> << <<"m","s","f","t","\n">>, <<"A","A","P","L">> >>, error_at |-> 0],
      [exists |-> TRUE, lines |-> << <<"M","S","F","T","\n">>, <<"A","A","P","L","\n">> >>, error_at |-> 2] }

DedupIdle ==
    /\ companies = <<>>
    /\ scan_i = 1
    /\ symbol_to_best_company = <<>>
    /\ clean_i = 1
    /\ given = <<>>
    /\ calls = <<>>

InitFilter ==
    /\ \E rs \in CanonicalLists :
          /\ heap = rs
          /\ unique_companies = [k \in DOMAIN rs |-> k]
    /\ DedupIdle
    /\ \/ /\ pc = "load_tracking"
          /\ tracking_file \in TrackingFiles
       \/ /\ pc = "filter"
          /\ tracking_file = NoFile
    /\ tracking_arg = NoArg
    /\ tracking_list = {}
    /\ filter_i = 1
    /\ filtered_companies = <<>>
    /\ RecordIdle
    /\ JobIdle
    /\ PipelineIdle

NextFilter ==
    \/ LoadTrackingList
    \/ FilterCall
    \/ FilterStep
    \/ FilterReturn

SpecFilter == InitFilter /\ [][NextFilter]_vars

(***************************************************************************)
(* Claims on the filter.                                                   *)
(***************************************************************************)
\* the records the loop of filter_companies_by_criteria has been through
FilterProcessed ==
    IF pc \in {"filtering", "filtered"}
    THEN {unique_companies[k] : k \in 1..(filter_i - 1)}
    ELSE {}

\* the filtered records made for a symbol
FilteredFor(symbol) ==
    {heap[filtered_companies[j]] :
        j \in {i \in DOMAIN filtered_companies : heap[filtered_companies[i]].ticker = symbol}}

EntriesFor(symbol) ==
    Cardinality({i \in DOMAIN filtered_companies : heap[filtered_companies[i]].ticker = symbol})

\* the tracking list the filter was called with
TrackingList == tracking_arg.symbols

RevenueOf(record) == IF "revenue_millions" \in DOMAIN record THEN record.revenue_millions ELSE 0
GrowthOf(record) == IF "growth_rate" \in DOMAIN record THEN record.growth_rate ELSE 0

\* some tier has both of its bounds strictly exceeded
SomeTier(revenue, growth) ==
    \/ revenue > 10 * Scale /\ growth > 50 * Scale
    \/ revenue > 100 * Scale /\ growth > 30 * Scale
    \/ revenue > 500 * Scale /\ growth > 25 * Scale
    \/ revenue > 1000 * Scale /\ growth > 20 * Scale
    \/ revenue > 5000 * Scale /\ growth > 15 * Scale

\* C6: once the filter has been through a canonical record whose symbol is in
\* the tracking list, its output holds the record exactly once, with
\* filter_reason tracking_list and never revenue_growth_criteria, whatever
\* revenue_millions and growth_rate are (absent, zero, negative, within a tier).
C6_TrackingOverride ==
    \A id \in FilterProcessed :
        heap[id].symbol \in TrackingList =>
            /\ EntriesFor(heap[id].symbol) = 1
            /\ \A f \in FilteredFor(heap[id].symbol) :
                  /\ f.filter_reason = "tracking_list"
                  /\ f.revenue_millions = RevenueOf(heap[id])
                  /\ f.growth_rate = GrowthOf(heap[id])

\* C6 witness: the filter has returned, and a tracked record whose amounts
\* satisfy a tier is in the output with filter_reason tracking_list.
C6_Witness ==
    /\ pc = "filtered"
    /\ \E id \in FilterProcessed :
          /\ heap[id].symbol \in TrackingList
          /\ SomeTier(RevenueOf(heap[id]), GrowthOf(heap[id]))
          /\ \E f \in FilteredFor(heap[id].symbol) : f.filter_reason = "tracking_list"

\* C7: once the filter has been through a canonical record whose symbol is not
\* in the tracking list, its output holds the record (once, with filter_reason
\* revenue_growth_criteria) if and only if some tier (10,50), (100,30),
\* (500,25), (1000,20), (5000,15) has both bounds strictly exceeded, absent
\* amounts counting as 0; a record exactly on the bounds (100, 30) is left out
\* and one 0.0001 above both is taken.
C7_TierCriteria ==
    \A id \in FilterProcessed :
        heap[id].symbol \notin TrackingList =>
            /\ EntriesFor(heap[id].symbol) =
                  (IF SomeTier(RevenueOf(heap[id]), GrowthOf(heap[id])) THEN 1 ELSE 0)
            /\ \A f \in FilteredFor(heap[id].symbol) :
                  f.filter_reason = "revenue_growth_criteria"
            /\ (RevenueOf(heap[id]) = 100 * Scale /\ GrowthOf(heap[id]) = 30 * Scale)
                  => EntriesFor(heap[id].symbol) = 0
            /\ (RevenueOf(heap[id]) = 100 * Scale + 1 /\ GrowthOf(heap[id]) = 30 * Scale + 1)
                  => EntriesFor(heap[id].symbol) = 1

\* C7 witness: the filter has returned, an untracked record with revenue
\* 100.0001 and growth 30.0001 is in the output with filter_reason
\* revenue_growth_criteria.
C7_Witness ==
    /\ pc = "filtered"
    /\ \E id \in FilterProcessed :
          /\ heap[id].symbol \notin TrackingList
          /\ RevenueOf(heap[id]) = 100 * Scale + 1
          /\ GrowthOf(heap[id]) = 30 * Scale + 1
          /\ \E f \in FilteredFor(heap[id].symbol) :
                f.filter_reason = "revenue_growth_criteria"

(***************************************************************************)
(* calculate_data_richness and extract_financial_data on one candidate,    *)
(* and on the same candidate with a reported_revenue added.                *)
(***************************************************************************)
CompanyNames == Optional({<<>>, <<"A","p","p","l","e"," ","I","n","c",".">>, <<"R","e","p","o","r","t","e","d">>})

RawTexts ==
    Optional({<<"A","A","P","L"," ","r","e","v","e","n","u","e"," ","u","p"," ","5","%">>, <<"R","e","v","e","n","u","e"," ","E","s","t","i","m","a","t","e",":"," ","$","5"," ","B">>, <<"$",",","B">>,
              <<"e","a","r","n","i","n","g","s"," ","1",",","2","0","0",".","2","5","M"," ","r","e","v","e","n","u","e">>})

ContextLines == Optional({<<"A","A","P","L"," ","$","3"," ","m","i","l","l","i","o","n">>, <<"R","e","p","o","r","t","e","d"," ","R","e","v","e","n","u","e",":"," ",","," ","B","i","l">>})

\* the cell texts a Reported Revenue column holds
ReportedRevenues == {<<"$","9","5"," ","B","i","l">>, <<"$","7"," ","M","i","l">>, <<"e","s","t","i","m","a","t","e">>, <<",">>, <<" ">>, <<","," ","B","i","l">>, <<"9","5">>}

CandidateOf(name, raw, context) ==
    [symbol |-> <<"A","A","P","L">>, source |-> "table_1_row_1"]
    @@ OptionalField(name /= <<>>, "company_name", name[1])
    @@ OptionalField(raw /= <<>>, "raw_text", raw[1])
    @@ OptionalField(context /= <<>>, "context_line", context[1])

\* texts with a labeled amount, alone and next to a generic dollar amount
LabeledTexts ==
    {<<"R","e","p","o","r","t","e","d"," ","R","e","v","e","n","u","e",":"," ","$","2",".","5"," ","B","i","l">>, <<"R","e","v","e","n","u","e",":"," ","$","7","5","0"," ","M","i","l","l","i","o","n">>,
     <<"$","5"," ","B","i","l"," ","R","e","p","o","r","t","e","d"," ","R","e","v","e","n","u","e",":"," ","$","2"," ","M","i","l">>, <<"R","e","p","o","r","t","e","d"," ","R","e","v","e","n","u","e",":"," ","$","2"," ","M","i","l"," ","$","5"," ","B","i","l">>,
     <<"r","e","p","o","r","t","e","d"," "," ","r","e","v","e","n","u","e"," ","3"," ","b","i","l","l","i","o","n">>, <<"1",",","2","0","0",".","2","5"," ","M"," ","R","e","v","e","n","u","e">>}

unit_words == billion_units \o million_units \o << <<"B","i","l">>, <<"B","i","l","l","i","o","n">>, <<"B">>, <<"M","i","l">>, <<"M","i","l","l","i","o","n">>, <<"M">> >>

\* an amount and its unit directly followed by the word Estimate, under each
\* of the three generic forms
EstimateTexts ==
    {<<"R","e","v","e","n","u","e",":"," ","$","5"," ">> \o unit_words[k] \o <<" ","E","s","t","i","m","a","t","e">> : k \in DOMAIN unit_words}
    \cup {<<"$","5"," ">> \o unit_words[k] \o <<" ","E","s","t","i","m","a","t","e">> : k \in DOMAIN unit_words}
    \cup {<<"5"," ">> \o unit_words[k] \o <<" ","R","e","v","e","n","u","e"," ","E","s","t","i","m","a","t","e">> : k \in DOMAIN unit_words}

RecordCandidates ==
    {CandidateOf(n, r, c) : n \in CompanyNames, r \in RawTexts, c \in ContextLines}
    \cup {CandidateOf(<<>>, <<r>>, <<>>) : r \in LabeledTexts \cup EstimateTexts}

\* company_data['reported_revenue'] = cell_text, on a copy of the candidate
AddReportedRevenue ==
    /\ pc = "record"
    /\ DOMAIN heap = {1}
    /\ \E cell_text \in ReportedRevenues :
          heap' = Append(heap, ("reported_revenue" :> cell_text) @@ heap[1])
    /\ UNCHANGED << pc, companies, scan_i, symbol_to_best_company, clean_i,
                    unique_companies, given, calls >>
    /\ UNCHANGED << filterVars, recordVars, jobVars, pipelineVars >>

\* data_score = self.calculate_data_richness(company)
CalculateRichness ==
    /\ pc = "record"
    /\ \E id \in DOMAIN heap \ DOMAIN scores :
          scores' = (id :> calculate_data_richness(heap[id])) @@ scores
    /\ UNCHANGED << dedupVars, filterVars, pipelineVars, jobVars, financial >>

\* financial_data = self.extract_financial_data(company)
ExtractFinancial ==
    /\ pc = "record"
    /\ \E id \in DOMAIN heap \ DOMAIN financial :
          financial' = (id :> extract_financial_data(heap[id])) @@ financial
    /\ UNCHANGED << dedupVars, filterVars, pipelineVars, jobVars, scores >>

InitRecord ==
    /\ \E candidate \in RecordCandidates : heap = << candidate >>
    /\ pc = "record"
    /\ DedupIdle
    /\ unique_companies = <<>>
    /\ FilterIdle
    /\ RecordIdle
    /\ JobIdle
    /\ PipelineIdle

NextRecord ==
    \/ AddReportedRevenue
    \/ CalculateRichness
    \/ ExtractFinancial

SpecRecord == InitRecord /\ [][NextRecord]_vars

(***************************************************************************)
(* Claims on the functions of one record.                                  *)
(***************************************************************************)
\* heap[2] is heap[1] with a non-empty reported_revenue added
IsRicherCopy ==
    /\ DOMAIN heap = {1, 2}
    /\ "reported_revenue" \notin DOMAIN heap[1]
    /\ "reported_revenue" \in DOMAIN heap[2]
    /\ heap[2]["reported_revenue"] /= <<>>
    /\ \A key \in DOMAIN heap[1] : key \in DOMAIN heap[2] /\ heap[2][key] = heap[1][key]
    /\ DOMAIN heap[2] = DOMAIN heap[1] \cup {"reported_revenue"}

\* C8: of two candidates with the same fields except that one carries a
\* non-empty reported_revenue in addition (whatever its text), the one with
\* the reported_revenue has the strictly higher calculate_data_richness.
C8_ScoreMonotonic ==
    (pc = "record" /\ IsRicherCopy /\ DOMAIN scores = {1, 2}) => scores[2] > scores[1]

\* C8 witness: both candidates are scored, the added reported_revenue holds
\* the word estimate and the other texts speak of revenue without it, so that
\* the revenue bonus of the richer candidate is the lower one.
C8_Witness ==
    /\ pc = "record"
    /\ IsRicherCopy
    /\ DOMAIN scores = {1, 2}
    /\ Contains(Lower(heap[2]["reported_revenue"]), <<"e","s","t","i","m","a","t","e">>)
    /\ RevenueBonus(text_content(heap[1])) > RevenueBonus(text_content(heap[2]))
    /\ scores[2] > scores[1]

\* C10: extract_financial_data never raises, whatever the text fields of the
\* candidate: an amount that is not a well-formed number is a miss.
C10_NeverRaises ==
    \A id \in DOMAIN financial : ~financial[id].raised

(***************************************************************************)
(* Claims on extract_financial_data.                                       *)
(***************************************************************************)
\* the candidate whose only text is raw_text
RawOnly(text) == CandidateOf(<<>>, <<text>>, <<>>)

\* the calls of extract_financial_data that returned a revenue
WithRevenue ==
    {id \in DOMAIN financial :
        ~financial[id].raised /\ "revenue_millions" \in DOMAIN financial[id].value}

\* the amount written in a matched substring and the letter its unit starts
\* with, read from the substring alone: a is where the first character of
\* [0-9,] stands
RawAmountFrom(raw, a) == ParseFloat(RemoveCommas(SubSeq(raw, a, AmountEnd(raw, a) - 1)))

RawAmount(raw) == RawAmountFrom(raw, Least({i \in DOMAIN raw : raw[i] \in AmountSet}))

RawUnitFrom(raw, a) == Lower(raw)[SkipWhile(raw, AmountEnd(raw, a), SpaceSet)]

RawUnit(raw) == RawUnitFrom(raw, Least({i \in DOMAIN raw : raw[i] \in AmountSet}))

RawMillions(raw) ==
    IF RawUnit(raw) = "b" THEN RawAmount(raw).value * 1000 ELSE RawAmount(raw).value

ReturnsRevenue(id, text, millions) ==
    heap[id] = RawOnly(text) =>
        /\ id \in WithRevenue
        /\ financial[id].value["revenue_millions"] = millions

\* C11: when extract_financial_data returns a revenue, revenue_raw is a piece
\* of the combined text, revenue_millions is the amount written in it (commas
\* stripped) times 1000 when its unit starts with b and times 1 when it starts
\* with m, and is never negative; "Reported Revenue: $2.5 Bil" gives 2500 and
\* "Revenue: $750 Million" gives 750.
C11_UnitNormalization ==
    /\ \A id \in WithRevenue :
          /\ Contains(combined_text(heap[id]), financial[id].value["revenue_raw"])
          /\ RawUnit(financial[id].value["revenue_raw"]) \in {"b", "m"}
          /\ financial[id].value["revenue_millions"]
                = RawMillions(financial[id].value["revenue_raw"])
          /\ financial[id].value["revenue_millions"] >= 0
    /\ \A id \in DOMAIN financial :
          /\ ReturnsRevenue(id, <<"R","e","p","o","r","t","e","d"," ","R","e","v","e","n","u","e",":"," ","$","2",".","5"," ","B","i","l">>, 2500 * Scale)
          /\ ReturnsRevenue(id, <<"R","e","v","e","n","u","e",":"," ","$","7","5","0"," ","M","i","l","l","i","o","n">>, 750 * Scale)

\* C11 witness: a million-class amount and, on the copy that carries a
\* reported_revenue, a billion-class amount have both been extracted.
C11_Witness ==
    /\ pc = "record"
    /\ WithRevenue = {1, 2}
    /\ heap[1] = RawOnly(<<"R","e","v","e","n","u","e",":"," ","$","7","5","0"," ","M","i","l","l","i","o","n">>)
    /\ financial[1].value["revenue_millions"] = 750 * Scale
    /\ financial[1].value["revenue_raw"] = <<"R","e","v","e","n","u","e",":"," ","$","7","5","0"," ","M","i","l">>
    /\ heap[2]["reported_revenue"] = <<"$","9","5"," ","B","i","l">>
    /\ financial[2].value["revenue_millions"] = 95000 * Scale

\* C12: a text with no Reported Revenue label in which the amount and its
\* unit are directly followed by the word Estimate gives no revenue_millions.
C12_EstimateSuppressed ==
    \A id \in DOMAIN financial :
        (\E text \in EstimateTexts : heap[id] = RawOnly(text)) => id \notin WithRevenue

\* the text the reported_revenue field adds to the combined text
FieldText(field) == <<"R","e","p","o","r","t","e","d"," ","R","e","v","e","n","u","e",":"," ">> \o field

\* the field holds an amount with a recognised unit: a labeled pattern
\* matches the text the field adds, and the amount is a number
HoldsAmount(field) ==
    /\ \/ RevenueMatchAt(FieldText(field), Lower(FieldText(field)), 1, revenue_patterns[1]).matched
       \/ RevenueMatchAt(FieldText(field), Lower(FieldText(field)), 1, revenue_patterns[2]).matched
    /\ ~RevenueData(FieldText(field)).raised

\* the calls on a candidate whose reported_revenue holds an amount
WithFieldAmount ==
    {id \in DOMAIN financial :
        /\ "reported_revenue" \in DOMAIN heap[id]
        /\ HoldsAmount(heap[id]["reported_revenue"])}

\* the revenue is the one the field alone gives
TakenFromField(id) ==
    /\ id \in WithRevenue
    /\ financial[id].value["revenue_millions"]
          = RevenueData(FieldText(heap[id]["reported_revenue"])).data["revenue_millions"]
    /\ financial[id].value["revenue_raw"]
          = RevenueData(FieldText(heap[id]["reported_revenue"])).data["revenue_raw"]

\* the text fields other than reported_revenue carry a Reported Revenue: label
OtherLabel(company) ==
    Contains(Lower(combined_text([key \in DOMAIN company \ {"reported_revenue"} |-> company[key]])),
             <<"r","e","p","o","r","t","e","d"," ","r","e","v","e","n","u","e",":">>)

LabeledWins(id) ==
    /\ ReturnsRevenue(id, <<"$","5"," ","B","i","l"," ","R","e","p","o","r","t","e","d"," ","R","e","v","e","n","u","e",":"," ","$","2"," ","M","i","l">>, 2 * Scale)
    /\ ReturnsRevenue(id, <<"R","e","p","o","r","t","e","d"," ","R","e","v","e","n","u","e",":"," ","$","2"," ","M","i","l"," ","$","5"," ","B","i","l">>, 2 * Scale)

\* C19 as stated: the labeled amount wins over a generic dollar amount in
\* either textual order, and a candidate whose reported_revenue holds an
\* amount with a recognised unit always has its revenue taken from that field.
C19_FieldAlwaysWins ==
    /\ \A id \in DOMAIN financial : LabeledWins(id)
    /\ \A id \in WithFieldAmount : TakenFromField(id)

\* C19 amended: the labeled amount wins over a generic dollar amount in either
\* textual order, and a candidate whose reported_revenue holds an amount with
\* a recognised unit has its revenue taken from that field when none of its
\* other text fields carries a Reported Revenue: label.
C19_FirstPatternWins ==
    /\ \A id \in DOMAIN financial : LabeledWins(id)
    /\ \A id \in WithFieldAmount : ~OtherLabel(heap[id]) => TakenFromField(id)

\* C19 witness: the raw_text alone gives a generic dollar amount, and the copy
\* with a reported_revenue of another amount gives the amount of the field.
C19_Witness ==
    /\ pc = "record"
    /\ WithRevenue = {1, 2}
    /\ 2 \in WithFieldAmount
    /\ ~OtherLabel(heap[2])
    /\ financial[1].value["revenue_raw"] = <<"$","5"," ","B">>
    /\ financial[1].value["revenue_millions"] = 5000 * Scale
    /\ heap[2]["reported_revenue"] = <<"$","7"," ","M","i","l">>
    /\ financial[2].value["revenue_millions"] = 7 * Scale

(***************************************************************************)
(* The page the driver shows.  A table is a sequence of rows, a row holds  *)
(* the texts of its th cells and of its td cells; an element has a class   *)
(* and an id attribute (<< >> when absent), data attributes, the text it   *)
(* renders and its innerHTML.  A row or an element that carries the field  *)
(* stale raises on every call made on it (find_elements, text,             *)
(* get_attribute); broken is the set of the driver's calls that raise: a   *)
(* selector's source tag for find_elements with that selector, "tables",   *)
(* "text_pattern" for the read of the body, "page_source_json" for the     *)
(* read of page_source.                                                    *)
(***************************************************************************)
IsStale(object) == "stale" \in DOMAIN object

\* concatenation of the first n sequences of ss
RECURSIVE ConcatTo(_, _)
ConcatTo(ss, n) == IF n = 0 THEN <<>> ELSE ConcatTo(ss, n - 1) \o ss[n]

Concat(ss) == ConcatTo(ss, Len(ss))

\* \b([A-Z]{lo,hi})\b at position i: a run of capitals that starts and ends
\* on a word boundary; 0 if none, else the position after the run
TickerEnd(t, i, e, lo, hi) ==
    IF /\ e - i >= lo
       /\ e - i <= hi
       /\ (i = 1 \/ ~IsWordChar(t[i - 1]))
       /\ (e > Len(t) \/ ~IsWordChar(t[e]))
    THEN e ELSE 0

TickerAt(t, i, lo, hi) == TickerEnd(t, i, SkipWhile(t, i, UpperSet), lo, hi)

\* the numbers of a set in increasing order
RECURSIVE Ascending(_)
Ascending(numbers) ==
    IF numbers = {} THEN <<>>
    ELSE << Least(numbers) >> \o Ascending(numbers \ {Least(numbers)})

\* re.findall(r'\b([A-Z]{lo,hi})\b', t): the runs in the order of their positions
TickerStarts(t, lo, hi) == Ascending({i \in 1..Len(t) : TickerAt(t, i, lo, hi) > 0})

TickersAt(t, starts, lo, hi) ==
    [k \in DOMAIN starts |-> SubSeq(t, starts[k], TickerAt(t, starts[k], lo, hi) - 1)]

FindTickers(t, lo, hi) == TickersAt(t, TickerStarts(t, lo, hi), lo, hi)

\* str.split('\n'): the pieces between one line break and the next
LineBreaks(t) == Ascending({0, Len(t) + 1} \cup {i \in 1..Len(t) : t[i] = "\n"})

LinesBetween(t, breaks) ==
    [k \in 1..(Len(breaks) - 1) |-> SubSeq(t, breaks[k] + 1, breaks[k + 1] - 1)]

SplitLines(t) == LinesBetween(t, LineBreaks(t))

\* the elements of s, in order, whose position is in keep
RECURSIVE SelectTo(_, _, _)
SelectTo(s, keep, n) ==
    IF n = 0 THEN <<>>
    ELSE SelectTo(s, keep, n - 1) \o (IF n \in keep THEN << s[n] >> ELSE <<>>)

Select(s, keep) == SelectTo(s, keep, Len(s))

\* a class name among the space-separated names of a class attribute
HasClass(class, name) ==
    \E i \in 1..Len(class) :
        /\ MatchAt(class, i, name)
        /\ (i = 1 \/ IsSpace(class[i - 1]))
        /\ (i + Len(name) > Len(class) \/ IsSpace(class[i + Len(name)]))

\* whether a CSS selector of the code selects an element
Selects(selector, element) ==
    CASE selector.kind = "class_contains" -> Contains(element.class, selector.arg)
      [] selector.kind = "id_contains" -> Contains(element.id, selector.arg)
      [] selector.kind = "class_is" -> HasClass(element.class, selector.arg)
      [] selector.kind = "id_is" -> element.id = selector.arg
      [] selector.kind = "has_attribute" -> selector.arg \in DOMAIN element.attrs

\* self.driver.find_elements(By.CSS_SELECTOR, selector), in document order
find_elements(elements, selector) ==
    Select(elements, {k \in DOMAIN elements : Selects(selector, elements[k])})

\* the candidates a strategy returns are appended to companies
Extend(found) ==
    /\ heap' = heap \o found
    /\ companies' = companies \o [k \in 1..Len(found) |-> Len(heap) + k]

(***************************************************************************)
(* Strategy 1: extract_from_tables.                                        *)
(***************************************************************************)
\* rows[0].find_elements(th), or its td cells when there is no th
HeaderCells(row) == IF row.th /= <<>> THEN row.th ELSE row.td

IsReportedRevenueHeader(cell) ==
    /\ Contains(Lower(Strip(cell)), <<"r","e","p","o","r","t","e","d"," ","r","e","v","e","n","u","e">>)
    /\ ~Contains(Lower(Strip(cell)), <<"e","s","t","i","m","a","t","e">>)

\* no column is taken for the reported revenue
ReportedRevenueCol_None(cells) == 0 - 1

\* the 0-based index of the first header cell that names the reported revenue, -1 if none
ReportedRevenueCol(cells) ==
    IF \E k \in DOMAIN cells : IsReportedRevenueHeader(cells[k])
    THEN (CHOOSE k \in DOMAIN cells :
              /\ IsReportedRevenueHeader(cells[k])
              /\ \A j \in 1..(k - 1) : ~IsReportedRevenueHeader(cells[j])) - 1
    ELSE 0 - 1

\* f'cell_{k}'
CellKey(k) == "cell_" \o ToString(k)

\* what cell k (0-based) with stripped text adds to company_data
CellField(k, text, reported_revenue_col) ==
    IF k = 0 /\ text /= <<>> /\ MatchesTicker(text) THEN "symbol" :> text
    ELSE IF k = 1 /\ text /= <<>> THEN "company_name" :> text
    ELSE IF k = reported_revenue_col /\ text /= <<>> /\ reported_revenue_col > 0 - 1
    THEN "reported_revenue" :> text
    ELSE IF k > 1 /\ text /= <<>> THEN CellKey(k) :> text
    ELSE EmptyDict

\* company_data after the first n cells of a row
RECURSIVE RowData(_, _, _)
RowData(cells, n, reported_revenue_col) ==
    IF n = 0 THEN EmptyDict
    ELSE CellField(n - 1, Strip(cells[n]), reported_revenue_col)
         @@ RowData(cells, n - 1, reported_revenue_col)

\* f'table_{i+1}_row_{j+1}', i and j counted from 1 here
TableSource(i, j) == "table_" \o ToString(i) \o "_row_" \o ToString(j)

\* the candidate of data row j of table i, if the row has one
RowCandidate(cells, data, i, j) ==
    IF Len(cells) >= 2 /\ data /= EmptyDict
    THEN << ("source" :> TableSource(i, j)) @@ data >>
    ELSE <<>>

\* the data rows (counted from 1) the loop reads before a row raises and the
\* except of the table ends it
RowsRead(rows) == {j \in 1..(Len(rows) - 1) : \A k \in 1..j : ~IsStale(rows[k + 1])}

TableCandidates(rows, i, reported_revenue_col) ==
    Concat([j \in 1..(Len(rows) - 1) |->
               IF j \in RowsRead(rows)
               THEN RowCandidate(rows[j + 1].td,
                                 RowData(rows[j + 1].td, Len(rows[j + 1].td),
                                         reported_revenue_col),
                                 i, j)
               ELSE <<>>])

\* a table whose header row raises is left before any candidate is appended
extract_from_tables(tables, broken) ==
    IF "tables" \in broken THEN <<>>
    ELSE Concat([i \in DOMAIN tables |->
                    IF tables[i] = <<>> \/ IsStale(tables[i][1]) THEN <<>>
                    ELSE TableCandidates(tables[i], i,
                                         ReportedRevenueCol(HeaderCells(tables[i][1])))])

(***************************************************************************)
(* Strategy 2: extract_from_divs.                                          *)
(***************************************************************************)
div_selectors ==
    << [name |-> "*[class*='company']", kind |-> "class_contains", arg |-> <<"c","o","m","p","a","n","y">>],
       [name |-> "*[class*='earnings']", kind |-> "class_contains", arg |-> <<"e","a","r","n","i","n","g","s">>],
       [name |-> "*[class*='symbol']", kind |-> "class_contains", arg |-> <<"s","y","m","b","o","l">>],
       [name |-> "*[class*='ticker']", kind |-> "class_contains", arg |-> <<"t","i","c","k","e","r">>],
       [name |-> "*[class*='eps']", kind |-> "class_contains", arg |-> <<"e","p","s">>],
       [name |-> "*[id*='company']", kind |-> "id_contains", arg |-> <<"c","o","m","p","a","n","y">>],
       [name |-> "*[id*='earnings']", kind |-> "id_contains", arg |-> <<"e","a","r","n","i","n","g","s">>],
       [name |-> "*[class*='cal']", kind |-> "class_contains", arg |-> <<"c","a","l">>],
       [name |-> ".stock", kind |-> "class_is", arg |-> <<"s","t","o","c","k">>],
       [name |-> ".earning", kind |-> "class_is", arg |-> <<"e","a","r","n","i","n","g">>] >>

\* the candidate of an element whose stripped text is text, if it has one
DivCandidate(text, tickers, source) ==
    IF text /= <<>> /\ tickers /= <<>>
    THEN << [symbol |-> tickers[1], raw_text |-> text, source |-> source] >>
    ELSE <<>>

\* an element that raises is skipped
DivCandidates(found, source) ==
    Concat([k \in DOMAIN found |->
               IF IsStale(found[k]) THEN <<>>
               ELSE DivCandidate(Strip(found[k].text),
                                 FindTickers(Strip(found[k].text), 1, 5), source)])

\* a selector whose find_elements raises is skipped
extract_from_divs(elements, broken) ==
    Concat([s \in DOMAIN div_selectors |->
               IF div_selectors[s].name \in broken THEN <<>>
               ELSE DivCandidates(find_elements(elements, div_selectors[s]),
                                  div_selectors[s].name)])

(***************************************************************************)
(* Strategy 3: extract_from_data_attributes.                               *)
(***************************************************************************)
data_selectors ==
    << [name |-> "[data-symbol]", kind |-> "has_attribute", arg |-> "data-symbol"],
       [name |-> "[data-company]", kind |-> "has_attribute", arg |-> "data-company"],
       [name |-> "[data-ticker]", kind |-> "has_attribute", arg |-> "data-ticker"],
       [name |-> "[data-eps]", kind |-> "has_attribute", arg |-> "data-eps"],
       [name |-> "[data-earnings]", kind |-> "has_attribute", arg |-> "data-earnings"] >>

\* attr and attr.replace('data-', '')
data_attributes ==
    << [attr |-> "data-symbol", key |-> "symbol"],
       [attr |-> "data-company", key |-> "company"],
       [attr |-> "data-ticker", key |-> "ticker"],
       [attr |-> "data-eps", key |-> "eps"],
       [attr |-> "data-earnings", key |-> "earnings"] >>

\* company_data after the first n attributes were read off an element
RECURSIVE AttributeData(_, _)
AttributeData(attrs, n) ==
    IF n = 0 THEN EmptyDict
    ELSE OptionalField(Get(attrs, data_attributes[n].attr, <<>>) /= <<>>,
                       data_attributes[n].key,
                       Get(attrs, data_attributes[n].attr, <<>>))
         @@ AttributeData(attrs, n - 1)

AttributeCandidate(data, source) ==
    IF data /= EmptyDict THEN << ("source" :> source) @@ data >> ELSE <<>>

AttributeCandidates(found, source) ==
    Concat([k \in DOMAIN found |->
               IF IsStale(found[k]) THEN <<>>
               ELSE AttributeCandidate(AttributeData(found[k].attrs, Len(data_attributes)),
                                       source)])

extract_from_data_attributes(elements, broken) ==
    Concat([s \in DOMAIN data_selectors |->
               IF data_selectors[s].name \in broken THEN <<>>
               ELSE AttributeCandidates(find_elements(elements, data_selectors[s]),
                                        data_selectors[s].name)])

(***************************************************************************)
(* Strategy 4: extract_from_text_patterns.                                 *)
(***************************************************************************)
text_false_positives ==
    { <<"A","M">>, <<"P","M">>, <<"E","S","T">>, <<"P","S","T">>, <<"G","M","T">>, <<"U","T","C">>, <<"U","S","D">>, <<"C","E","O">>, <<"C","F","O">>, <<"E","P","S">>,
      <<"Q","1">>, <<"Q","2">>, <<"Q","3">>, <<"Q","4">>, <<"T","H","E">>, <<"A","N","D">>, <<"F","O","R">>, <<"B","U","T">>, <<"N","O","T">>, <<"Y","O","U">>,
      <<"A","L","L">>, <<"C","A","N">>, <<"H","A","D">>, <<"H","E","R">>, <<"W","A","S">>, <<"O","N","E">>, <<"O","U","R">>, <<"O","U","T">>, <<"D","A","Y">>, <<"G","E","T">>,
      <<"U","S","E">>, <<"M","A","N">>, <<"N","E","W">>, <<"N","O","W">>, <<"W","A","Y">>, <<"M","A","Y">>, <<"S","A","Y">>, <<"S","U","N">>, <<"M","O","N">>, <<"T","U","E">>,
      <<"W","E","D">>, <<"T","H","U">>, <<"F","R","I">>, <<"S","A","T">>, <<"J","A","N">>, <<"F","E","B">>, <<"M","A","R">>, <<"A","P","R">>, <<"J","U","N">>, <<"J","U","L">>,
      <<"A","U","G">>, <<"S","E","P">>, <<"O","C","T">>, <<"N","O","V">>, <<"D","E","C">>, <<"T","O","P">>, <<"E","N","D">>, <<"K","E","Y">>, <<"O","P","E","N">>, <<"B","M","O">>,
      <<"A","M","C">>, <<"T","B","D">>, <<"N","O","N","E">>, <<"V","I","E","W">>, <<"L","I","S","T">>, <<"O","N","L","Y">>, <<"E","T">>, <<"P","T">>, <<"C","T">>, <<"M","T">> }

context_words ==
    { <<"e","a","r","n","i","n","g","s">>, <<"e","p","s">>, <<"$">>, <<"r","e","v","e","n","u","e">>, <<"p","r","o","f","i","t">>, <<"c","o","n","s","e","n","s","u","s">>, <<"e","s","t","i","m","a","t","e">>,
      <<"w","h","i","s","p","e","r">> }

HasFinancialContext(lowered) == \E word \in context_words : Contains(lowered, word)

\* the candidates of one stripped line
LineCandidates(line, tickers) ==
    IF line = <<>> \/ ~HasFinancialContext(Lower(line)) THEN <<>>
    ELSE Concat([k \in DOMAIN tickers |->
                    IF tickers[k] \in text_false_positives THEN <<>>
                    ELSE << [symbol |-> tickers[k], context_line |-> line,
                             source |-> "text_pattern"] >>])

TextCandidates(lines) ==
    Concat([k \in DOMAIN lines |->
               LineCandidates(Strip(lines[k]), FindTickers(Strip(lines[k]), 1, 5))])

\* no candidate when the read of the body raises
extract_from_text_patterns(body_text, broken) ==
    IF "text_pattern" \in broken THEN <<>> ELSE TextCandidates(SplitLines(body_text))

(***************************************************************************)
(* Strategy 5: extract_from_page_source.                                   *)
(***************************************************************************)
\* the quoted keys of the three json_patterns
json_keys == << <<"\"","s","y","m","b","o","l","\"">>, <<"\"","t","i","c","k","e","r","\"">>, <<"\"","S","y","m","b","o","l","\"">> >>

NoJson == [end |-> 0, symbol |-> <<>>]

\* "([A-Z]{1,5})" with the opening quote at q and the run of capitals ending before e
JsonQuoted(t, q, e) ==
    IF /\ q <= Len(t)
       /\ t[q] = "\""
       /\ e - (q + 1) >= 1
       /\ e - (q + 1) <= 5
       /\ e <= Len(t)
       /\ t[e] = "\""
    THEN [end |-> e + 1, symbol |-> SubSeq(t, q + 1, e - 1)] ELSE NoJson

JsonQuotedAt(t, q) == JsonQuoted(t, q, SkipWhile(t, q + 1, UpperSet))

\* :\s*"([A-Z]{1,5})" at position c
JsonValue(t, c) ==
    IF c <= Len(t) /\ t[c] = ":"
    THEN JsonQuotedAt(t, SkipWhile(t, c + 1, SpaceSet)) ELSE NoJson

\* the pattern of key at position i
JsonMatchAt(t, i, key) ==
    IF MatchAt(t, i, key) THEN JsonValue(t, SkipWhile(t, i + Len(key), SpaceSet))
    ELSE NoJson

\* re.findall(pattern, page_source) as candidates: the matches from the left,
\* one that starts inside the match before it left out
JsonStarts(t, key) == {i \in 1..Len(t) : JsonMatchAt(t, i, key).end > 0}

RECURSIVE JsonMatchesFrom(_, _, _)
RECURSIVE JsonNext(_, _, _, _)
JsonNext(t, starts, key, match) ==
    << [symbol |-> match.symbol, source |-> "page_source_json"] >>
    \o JsonMatchesFrom(t, {i \in starts : i >= match.end}, key)

JsonMatchesFrom(t, starts, key) ==
    IF starts = {} THEN <<>>
    ELSE JsonNext(t, starts, key, JsonMatchAt(t, Least(starts), key))

\* the js_patterns are only printed; no candidate when the read of
\* page_source raises
extract_from_page_source(page_source, broken) ==
    IF "page_source_json" \in broken THEN <<>>
    ELSE Concat([p \in DOMAIN json_keys |->
                    JsonMatchesFrom(page_source, JsonStarts(page_source, json_keys[p]),
                                    json_keys[p])])

(***************************************************************************)
(* Strategy 6: extract_from_ew_patterns.                                   *)
(***************************************************************************)
ew_selectors ==
    << [name |-> "[id*='showcal']", kind |-> "id_contains", arg |-> <<"s","h","o","w","c","a","l">>],
       [name |-> "[class*='showcal']", kind |-> "class_contains", arg |-> <<"s","h","o","w","c","a","l">>],
       [name |-> "[id*='calctrl']", kind |-> "id_contains", arg |-> <<"c","a","l","c","t","r","l">>],
       [name |-> "[class*='calendar']", kind |-> "class_contains", arg |-> <<"c","a","l","e","n","d","a","r">>],
       [name |-> ".showlist", kind |-> "class_is", arg |-> <<"s","h","o","w","l","i","s","t">>],
       [name |-> "#showcal", kind |-> "id_is", arg |-> <<"s","h","o","w","c","a","l">>] >>

ew_false_positives ==
    { <<"H","T","M","L">>, <<"D","I","V">>, <<"S","P","A","N">>, <<"C","L","A","S","S">>, <<"S","T","Y","L","E">>, <<"H","R","E","F">>, <<"S","R","C">>, <<"A","L","T">>,
      <<"T","E","X","T">>, <<"F","O","N","T">>, <<"S","I","Z","E">>, <<"C","O","L","O","R">>, <<"B","O","L","D">>, <<"L","I","N","K">>, <<"B","U","T","T","O","N">>,
      <<"F","O","R","M">>, <<"I","N","P","U","T">>, <<"T","A","B","L","E">>, <<"T","B","O","D","Y">>, <<"T","H","E","A","D">>, <<"C","E","L","L">>, <<"R","O","W">>,
      <<"A","M">>, <<"P","M">>, <<"E","T">>, <<"P","T">>, <<"C","T">>, <<"M","T">>, <<"E","S","T">>, <<"P","S","T">>, <<"G","M","T">>, <<"U","T","C">> }

RawHtmlCap == 200

\* inner_html[:200]
RawHtml(inner_html) ==
    IF Len(inner_html) <= RawHtmlCap THEN inner_html ELSE SubSeq(inner_html, 1, RawHtmlCap)

\* the candidates of one element
EwElementCandidates(inner_html, symbols, source) ==
    Concat([k \in DOMAIN symbols |->
               IF symbols[k] \in ew_false_positives THEN <<>>
               ELSE << [symbol |-> symbols[k], source |-> source,
                        raw_html |-> RawHtml(inner_html)] >>])

EwCandidates(found, source) ==
    Concat([k \in DOMAIN found |->
               IF IsStale(found[k]) THEN <<>>
               ELSE EwElementCandidates(found[k].inner_html,
                                        FindTickers(found[k].inner_html, 2, 5), source)])

extract_from_ew_patterns(elements, broken) ==
    Concat([s \in DOMAIN ew_selectors |->
               IF "ew_pattern_" \o ew_selectors[s].name \in broken THEN <<>>
               ELSE EwCandidates(find_elements(elements, ew_selectors[s]),
                                 "ew_pattern_" \o ew_selectors[s].name)])

(***************************************************************************)
(* extract_earnings_data: the cookie wall check, the six strategies in     *)
(* order, deduplicate_companies, the envelope, the filter and the filtered *)
(* envelope.  scraped_at is left out of both envelopes.                    *)
(***************************************************************************)
date_str == "2025-01-15"

\* earnings_data as the function starts
NewEnvelope == [date |-> date_str, companies |-> <<>>, status |-> "success"]

\* str(e) of what a call of the driver raises, and of what open() raises
driver_error == "Message: stale element reference"
file_error == "[Errno 13] Permission denied: 'debug_selenium_final_page.html'"

\* the marker is never seen
HasCookieWall_Never(page_source) == FALSE

\* "Accept Cookies" in self.driver.page_source
HasCookieWall(page_source) == Contains(page_source, <<"A","c","c","e","p","t"," ","C","o","o","k","i","e","s">>)

\* the cookie wall check; the read of page_source can raise
CheckCookieWall ==
    /\ pc = "start"
    /\ IF "cookie_check" \in faults
       THEN /\ exception' = driver_error
            /\ pc' = "raised"
            /\ UNCHANGED earnings_data
       ELSE IF HasCookieWall(page.page_source)
       THEN /\ earnings_data' =
                  Update(earnings_data,
                         [status |-> "cookie_wall_present",
                          message |-> "Cookie acceptance required but not completed"])
            /\ pc' = "returned"
            /\ UNCHANGED exception
       ELSE /\ pc' = "tables"
            /\ UNCHANGED << earnings_data, exception >>
    /\ UNCHANGED << dedupData, filterVars, recordVars, jobVars, page, filtered_data, faults >>

\* what companies.extend(...) of a strategy's candidates leaves alone
strategyFrame ==
    << scan_i, symbol_to_best_company, clean_i, unique_companies, given, calls,
       filterVars, recordVars, jobVars, pipelineVars >>

\* companies.extend(self.extract_from_tables())
ExtractFromTables ==
    /\ pc = "tables"
    /\ Extend(extract_from_tables(page.tables, faults))
    /\ pc' = "divs"
    /\ UNCHANGED strategyFrame

\* companies.extend(self.extract_from_divs())
ExtractFromDivs ==
    /\ pc = "divs"
    /\ Extend(extract_from_divs(page.elements, faults))
    /\ pc' = "data_attributes"
    /\ UNCHANGED strategyFrame

\* companies.extend(self.extract_from_data_attributes())
ExtractFromDataAttributes ==
    /\ pc = "data_attributes"
    /\ Extend(extract_from_data_attributes(page.elements, faults))
    /\ pc' = "text_patterns"
    /\ UNCHANGED strategyFrame

\* companies.extend(self.extract_from_text_patterns())
ExtractFromTextPatterns ==
    /\ pc = "text_patterns"
    /\ Extend(extract_from_text_patterns(page.body_text, faults))
    /\ pc' = "page_source"
    /\ UNCHANGED strategyFrame

\* companies.extend(self.extract_from_page_source())
ExtractFromPageSource ==
    /\ pc = "page_source"
    /\ Extend(extract_from_page_source(page.page_source, faults))
    /\ pc' = "ew_patterns"
    /\ UNCHANGED strategyFrame

\* companies.extend(self.extract_from_ew_patterns())
ExtractFromEwPatterns ==
    /\ pc = "ew_patterns"
    /\ Extend(extract_from_ew_patterns(page.elements, faults))
    /\ pc' = "candidates"
    /\ UNCHANGED strategyFrame

\* the status left as it is when there is no company
StoredEnvelope_KeepStatus(data, found) == Update(data, [companies |-> found])

\* earnings_data after the companies are stored
StoredEnvelope(data, found) ==
    IF found = <<>>
    THEN Update(data,
                [companies |-> found,
                 status |-> "no_data_found",
                 message |-> "No earnings data found for " \o date_str
                    \o ". This might be a future date with no scheduled earnings."])
    ELSE Update(data, [companies |-> found])

\* earnings_data['companies'] = companies, no_data_found when there is none
StoreCompanies ==
    /\ pc = "deduped"
    /\ earnings_data' = StoredEnvelope(earnings_data, unique_companies)
    /\ pc' = IF unique_companies = <<>> THEN "debug_page" ELSE "load_tracking"
    /\ UNCHANGED << dedupData, filterVars, recordVars, jobVars, page, filtered_data, faults,
                    exception >>

\* the printable ASCII characters in code point order (the grave accent left out)
Ascii ==
    <<" ","!","\"","#","$","%","&","'","(",")","*","+",",","-",".","/","0","1","2","3","4","5","6","7","8","9",":",";","<","=",">","?","@">> \o UpperLetters \o <<"[","\\","]","^","_">>
    \o LowerLetters \o <<"{","|","}","~">>

CharLess(a, b) == IndexIn(a, Ascii) < IndexIn(b, Ascii)

\* a < b for str
RECURSIVE StrLess(_, _)
StrLess(a, b) ==
    IF a = <<>> THEN b /= <<>>
    ELSE IF b = <<>> THEN FALSE
    ELSE IF a[1] = b[1] THEN StrLess(Tail(a), Tail(b))
    ELSE CharLess(a[1], b[1])

LeastStr(symbols) == CHOOSE s \in symbols : \A o \in symbols \ {s} : StrLess(s, o)

\* sorted(list(symbols))
RECURSIVE Sorted(_)
Sorted(symbols) ==
    IF symbols = {} THEN <<>>
    ELSE << LeastStr(symbols) >> \o Sorted(symbols \ {LeastStr(symbols)})

revenue_growth_rules ==
    << ">10M revenue and >50% growth",
       ">100M revenue and >30% growth",
       ">500M revenue and >25% growth",
       ">1000M revenue and >20% growth",
       ">5000M revenue and >15% growth" >>

\* total_original counted on the candidates instead of the canonical records
FilteredEnvelope_CountsCandidates(symbols) ==
    [ date            |-> date_str,
      filter_criteria |-> [ revenue_growth_rules |-> revenue_growth_rules,
                            tracking_list        |-> Sorted(symbols),
                            tracking_list_count  |-> Cardinality(symbols) ],
      companies       |-> filtered_companies,
      total_filtered  |-> Len(filtered_companies),
      total_original  |-> Len(companies) ]

\* the dict handed to save_to_file
FilteredEnvelope(symbols) ==
    [ date            |-> date_str,
      filter_criteria |-> [ revenue_growth_rules |-> revenue_growth_rules,
                            tracking_list        |-> Sorted(symbols),
                            tracking_list_count  |-> Cardinality(symbols) ],
      companies       |-> filtered_companies,
      total_filtered  |-> Len(filtered_companies),
      total_original  |-> Len(unique_companies) ]

\* if filtered_companies: the filtered envelope is handed to save_to_file,
\* which catches what open() and json.dump raise
SaveFiltered ==
    /\ pc = "filtered"
    /\ filtered_data' = IF filtered_companies /= <<>>
                        THEN FilteredEnvelope(tracking_arg.symbols)
                        ELSE filtered_data
    /\ pc' = "debug_page"
    /\ UNCHANGED << dedupData, filterVars, recordVars, jobVars, page, earnings_data, faults,
                    exception >>

\* if self.debug: the page source is written to a file, and open() or the
\* read of page_source can raise; return earnings_data
SaveDebugPage ==
    /\ pc = "debug_page"
    /\ IF "debug_page" \in faults
       THEN /\ exception' = file_error
            /\ pc' = "raised"
       ELSE /\ pc' = "returned"
            /\ UNCHANGED exception
    /\ UNCHANGED << dedupData, filterVars, recordVars, jobVars, page, earnings_data,
                    filtered_data, faults >>

\* the message stored, the status left as it is
ErrorEnvelope_KeepStatus(data, message) == Update(data, [message |-> message])

\* earnings_data['status'] = 'error'; earnings_data['message'] = str(e)
ErrorEnvelope(data, message) == Update(data, [status |-> "error", message |-> message])

\* except Exception as e: return earnings_data
ReturnError ==
    /\ pc = "raised"
    /\ earnings_data' = ErrorEnvelope(earnings_data, exception)
    /\ exception' = NoException
    /\ pc' = "returned"
    /\ UNCHANGED << dedupData, filterVars, recordVars, jobVars, page, filtered_data, faults >>

(***************************************************************************)
(* Pages.  TablePage is one table with a header row and one data row; its  *)
(* body text is the table as the driver renders it, a line per row.        *)
(***************************************************************************)
TablePage ==
    [ tables |->
        << << [th |-> << <<"S","y","m","b","o","l">>, <<"C","o","m","p","a","n","y">>, <<"R","e","p","o","r","t","e","d"," ","R","e","v","e","n","u","e">> >>, td |-> <<>>],
              [th |-> <<>>, td |-> << <<"A","A","P","L">>, <<"A","p","p","l","e"," ","I","n","c",".">>, <<"$","9","5"," ","B","i","l">> >>] >> >>,
      elements |-> <<>>,
      body_text |-> <<"S","y","m","b","o","l"," ","C","o","m","p","a","n","y"," ","R","e","p","o","r","t","e","d"," ","R","e","v","e","n","u","e","\n","A","A","P","L"," ","A","p","p","l","e"," ","I","n","c","."," ","$","9","5"," ","B","i","l">>,
      page_source |->
        <<"<","t","a","b","l","e",">","<","t","r",">","<","t","h",">","S","y","m","b","o","l","<","/","t","h",">","<","t","h",">","C","o","m","p","a","n","y","<","/","t","h",">","<","t","h",">","R","e","p","o","r","t","e","d"," ","R","e","v","e","n","u","e","<","/","t","h",">","<","/","t","r",">">>
        \o <<"<","t","r",">","<","t","d",">","A","A","P","L","<","/","t","d",">","<","t","d",">","A","p","p","l","e"," ","I","n","c",".","<","/","t","d",">","<","t","d",">","$","9","5"," ","B","i","l","<","/","t","d",">","<","/","t","r",">","<","/","t","a","b","l","e",">">> ]

\* the cookie wall over a page that names a symbol
CookiePage ==
    [ tables |-> <<>>,
      elements |->
        << [ class |-> <<>>, id |-> <<>>,
             attrs |-> [x \in {"data-symbol"} |-> <<"A","A","P","L">>],
             text |-> <<>>, inner_html |-> <<>> ] >>,
      body_text |-> <<"A","c","c","e","p","t"," ","C","o","o","k","i","e","s">>,
      page_source |-> <<"<","b","u","t","t","o","n",">","A","c","c","e","p","t"," ","C","o","o","k","i","e","s","<","/","b","u","t","t","o","n",">","<","i"," ","d","a","t","a","-","s","y","m","b","o","l","=","\"","A","A","P","L","\"",">","<","/","i",">">> ]

EmptyPage ==
    [ tables |-> <<>>,
      elements |-> <<>>,
      body_text |-> <<"N","o"," ","e","a","r","n","i","n","g","s"," ","s","c","h","e","d","u","l","e","d">>,
      page_source |-> <<"<","p",">","N","o"," ","e","a","r","n","i","n","g","s"," ","s","c","h","e","d","u","l","e","d","<","/","p",">">> ]

CalendarPage ==
    [ tables |-> <<>>,
      elements |->
        << [ class |-> <<"e","a","r","n","i","n","g","s","-","r","o","w">>, id |-> <<>>,
             attrs |-> [x \in {"data-symbol"} |-> <<"M","S","F","T">>],
             text |-> <<"M","S","F","T"," ","R","e","v"," ","$","2"," ","B","i","l"," ","+","6","0","%">>,
             inner_html |-> <<"M","S","F","T"," ","R","e","v"," ","$","2"," ","B","i","l"," ","+","6","0","%">> ],
           [ class |-> <<>>, id |-> <<"s","h","o","w","c","a","l">>,
             attrs |-> <<>>,
             text |-> <<"N","V","D","A"," ","E","P","S"," ","$","1">>,
             inner_html |-> <<"<","b",">","N","V","D","A","<","/","b",">"," ","E","P","S"," ","$","1">> ] >>,
      body_text |-> <<"M","S","F","T"," ","R","e","v"," ","$","2"," ","B","i","l"," ","+","6","0","%","\n","N","V","D","A"," ","E","P","S"," ","$","1">>,
      page_source |->
        <<"<","d","i","v"," ","c","l","a","s","s","=","\"","e","a","r","n","i","n","g","s","-","r","o","w","\""," ","d","a","t","a","-","s","y","m","b","o","l","=","\"","M","S","F","T","\"",">","M","S","F","T"," ","R","e","v"," ","$","2"," ","B","i","l"," ","+","6","0","%","<","/","d","i","v",">">>
        \o <<"<","d","i","v"," ","i","d","=","\"","s","h","o","w","c","a","l","\"",">","<","b",">","N","V","D","A","<","/","b",">"," ","E","P","S"," ","$","1","<","/","d","i","v",">">>
        \o <<"<","s","c","r","i","p","t",">","{","\"","t","i","c","k","e","r","\"",":"," ","\"","N","V","D","A","\"","}","<","/","s","c","r","i","p","t",">">> ]

\* a revenue amount made of a comma only
BrokenPage ==
    [ tables |-> <<>>,
      elements |->
        << [ class |-> <<"s","t","o","c","k">>, id |-> <<>>, attrs |-> <<>>,
             text |-> <<"T","S","L","A"," ","$",",","B">>, inner_html |-> <<"T","S","L","A"," ","$",",","B">> ] >>,
      body_text |-> <<"T","S","L","A"," ","$",",","B">>,
      page_source |-> <<"<","d","i","v"," ","c","l","a","s","s","=","\"","s","t","o","c","k","\"",">","T","S","L","A"," ","$",",","B","<","/","d","i","v",">">> ]

\* every candidate is one deduplicate_companies rejects
RejectedPage ==
    [ tables |-> <<>>,
      elements |->
        << [ class |-> <<>>, id |-> <<>>,
             attrs |-> [x \in {"data-symbol"} |-> <<"Q","1">>],
             text |-> <<>>, inner_html |-> <<>> ] >>,
      body_text |-> <<"T","H","E"," ","e","a","r","n","i","n","g","s">>,
      page_source |-> <<"<","i"," ","d","a","t","a","-","s","y","m","b","o","l","=","\"","Q","1","\"",">","<","/","i",">","<","s","c","r","i","p","t",">","{","\"","s","y","m","b","o","l","\"",":"," ","\"","E","S","T","\"","}","<","/","s","c","r","i","p","t",">">> ]

\* rows and elements that raise next to rows and elements that do not
FaultyPage ==
    [ tables |->
        << << [th |-> << <<"S","y","m","b","o","l">>, <<"C","o","m","p","a","n","y">>, <<"R","e","p","o","r","t","e","d"," ","R","e","v","e","n","u","e">> >>, td |-> <<>>],
              [th |-> <<>>, td |-> << <<"A","A","P","L">>, <<"A","p","p","l","e"," ","I","n","c",".">>, <<"$","9","5"," ","B","i","l">> >>],
              [th |-> <<>>, td |-> << <<"M","S","F","T">>, <<"M","i","c","r","o","s","o","f","t">>, <<"$","6","0"," ","B","i","l">> >>, stale |-> TRUE],
              [th |-> <<>>, td |-> << <<"N","V","D","A">>, <<"N","v","i","d","i","a">>, <<"$","3","0"," ","B","i","l">> >>] >>,
           << [th |-> << <<"S","y","m","b","o","l">>, <<"C","o","m","p","a","n","y">> >>, td |-> <<>>, stale |-> TRUE],
              [th |-> <<>>, td |-> << <<"A","M","D">>, <<"A","d","v","a","n","c","e","d"," ","M","i","c","r","o">> >>] >>,
           << [th |-> <<>>, td |-> << <<"S","y","m","b","o","l">>, <<"C","o","m","p","a","n","y">> >>],
              [th |-> <<>>, td |-> << <<"I","N","T","C">>, <<"I","n","t","e","l">> >>] >> >>,
      elements |->
        << [ class |-> <<"s","t","o","c","k">>, id |-> <<>>, attrs |-> <<>>,
             text |-> <<"T","S","L","A"," ","$","1"," ","B">>, inner_html |-> <<"T","S","L","A"," ","$","1"," ","B">>, stale |-> TRUE ],
           [ class |-> <<"s","t","o","c","k">>, id |-> <<>>, attrs |-> <<>>,
             text |-> <<"I","B","M"," ","e","a","r","n","i","n","g","s"," ","$","2"," ","B","i","l">>, inner_html |-> <<"I","B","M"," ","e","a","r","n","i","n","g","s"," ","$","2"," ","B","i","l">> ],
           [ class |-> <<>>, id |-> <<>>, attrs |-> [x \in {"data-symbol"} |-> <<"O","R","C","L">>],
             text |-> <<>>, inner_html |-> <<>>, stale |-> TRUE ],
           [ class |-> <<>>, id |-> <<>>, attrs |-> [x \in {"data-symbol"} |-> <<"C","R","M">>],
             text |-> <<>>, inner_html |-> <<>> ],
           [ class |-> <<>>, id |-> <<"s","h","o","w","c","a","l">>, attrs |-> <<>>,
             text |-> <<"U","B","E","R">>, inner_html |-> <<"<","b",">","U","B","E","R","<","/","b",">">>, stale |-> TRUE ],
           [ class |-> <<>>, id |-> <<"s","h","o","w","c","a","l">>, attrs |-> <<>>,
             text |-> <<"C","S","C","O">>, inner_html |-> <<"<","b",">","C","S","C","O","<","/","b",">">> ] >>,
      body_text |-> <<"A","D","B","E"," ","e","a","r","n","i","n","g","s"," ","$","3">>,
      page_source |-> <<"<","s","c","r","i","p","t",">","{","\"","s","y","m","b","o","l","\"",":"," ","\"","Q","C","O","M","\"","}","<","/","s","c","r","i","p","t",">">> ]

\* a weekday and a currency code that the data attributes and the embedded
\* JSON propose as symbols, on a line extract_from_text_patterns reads too
WeekdayPage ==
    [ tables |-> <<>>,
      elements |->
        << [ class |-> <<>>, id |-> <<>>,
             attrs |-> [x \in {"data-symbol"} |-> <<"M","O","N">>],
             text |-> <<"M","O","N"," ","e","a","r","n","i","n","g","s"," ","c","a","l","l">>, inner_html |-> <<"M","O","N"," ","e","a","r","n","i","n","g","s"," ","c","a","l","l">> ] >>,
      body_text |-> <<"M","O","N"," ","e","a","r","n","i","n","g","s"," ","c","a","l","l">>,
      page_source |->
        <<"<","i"," ","d","a","t","a","-","s","y","m","b","o","l","=","\"","M","O","N","\"",">","M","O","N"," ","e","a","r","n","i","n","g","s"," ","c","a","l","l","<","/","i",">","<","s","c","r","i","p","t",">","{","\"","s","y","m","b","o","l","\"",":"," ","\"","U","S","D","\"","}","<","/","s","c","r","i","p","t",">">> ]

\* tables whose Reported Revenue header stands at index 1, 0 and 3; the last
\* has a row with an empty cell in that column and a row of one cell; an
\* element names its ticker in data-ticker
ColumnsPage ==
    [ tables |->
        << << [th |-> << <<"S","y","m","b","o","l">>, <<"R","e","p","o","r","t","e","d"," ","R","e","v","e","n","u","e">>, <<"C","o","m","p","a","n","y">> >>, td |-> <<>>],
              [th |-> <<>>, td |-> << <<"A","A","P","L">>, <<"$","9","5"," ","B","i","l">>, <<"A","p","p","l","e"," ","I","n","c",".">> >>] >>,
           << [th |-> << <<"R","e","p","o","r","t","e","d"," ","R","e","v","e","n","u","e">>, <<"C","o","m","p","a","n","y">>, <<"S","y","m","b","o","l">> >>, td |-> <<>>],
              [th |-> <<>>, td |-> << <<"$","7"," ","M","i","l">>, <<"A","m","d">>, <<"A","M","D">> >>] >>,
           << [th |-> << <<"S","y","m","b","o","l">>, <<"C","o","m","p","a","n","y">>, <<"E","P","S">>, <<" ","R","e","p","o","r","t","e","d"," ","R","e","v","e","n","u","e"," ">> >>,
               td |-> <<>>],
              [th |-> <<>>, td |-> << <<"M","S","F","T">>, <<"M","i","c","r","o","s","o","f","t">>, <<"$","2">>, <<" ","$","6","0"," ","B","i","l">> >>],
              [th |-> <<>>, td |-> << <<"N","V","D","A">>, <<"N","v","i","d","i","a">>, <<"$","1">>, <<" ">> >>],
              [th |-> <<>>, td |-> << <<"I","B","M">> >>] >> >>,
      elements |->
        << [ class |-> <<>>, id |-> <<>>,
             attrs |-> [x \in {"data-ticker"} |-> <<"A","A","P","L">>],
             text |-> <<>>, inner_html |-> <<>> ] >>,
      body_text |-> <<"A","A","P","L"," ","$","9","5"," ","B","i","l"," ","A","p","p","l","e"," ","I","n","c",".">>,
      page_source |-> <<"<","t","a","b","l","e",">","<","/","t","a","b","l","e",">">> ]

\* n characters that are no part of an amount, a unit or a ticker
Filler(n) == [k \in 1..n |-> "x"]

\* two elements whose texts name a revenue, one of 500 characters and one of 499
LongTextPage ==
    [ tables |-> <<>>,
      elements |->
        << [ class |-> <<"s","t","o","c","k">>, id |-> <<>>, attrs |-> <<>>,
             text |-> <<"T","S","L","A"," ","$","3"," ","B","i","l"," ">> \o Filler(488),
             inner_html |-> <<"T","S","L","A">> ],
           [ class |-> <<"s","t","o","c","k">>, id |-> <<>>, attrs |-> <<>>,
             text |-> <<"I","B","M"," ","$","2"," ","B","i","l"," ">> \o Filler(488),
             inner_html |-> <<"I","B","M">> ] >>,
      body_text |-> <<"n","o","n","e">>,
      page_source |-> <<"<","p",">","n","o","n","e","<","/","p",">">> ]

Pages ==
    {TablePage, CookiePage, EmptyPage, CalendarPage, BrokenPage, RejectedPage, WeekdayPage,
     ColumnsPage, LongTextPage}

\* the calls that can raise outside the strategies: the read of page_source
\* for the cookie wall check and the write of the debug page
FaultSites == {"cookie_check", "debug_page"}

\* no call raises, or one does
FaultSets == {{}} \cup {{site} : site \in FaultSites}

\* the calls that can raise inside the strategies
StrategyFaultSites ==
    {"tables", ".stock", "[data-symbol]", "text_pattern", "page_source_json",
     "ew_pattern_[id*='showcal']"}

StrategyFaultSets ==
    {{}, StrategyFaultSites} \cup {{site} : site \in StrategyFaultSites}

InitPipeline ==
    /\ \/ page \in Pages /\ faults \in FaultSets
       \/ page = FaultyPage /\ faults \in StrategyFaultSets
    /\ tracking_file \in TrackingFiles
    /\ earnings_data = NewEnvelope
    /\ filtered_data = EmptyDict
    /\ exception = NoException
    /\ pc = "start"
    /\ heap = <<>>
    /\ DedupIdle
    /\ unique_companies = <<>>
    /\ tracking_arg = NoArg
    /\ tracking_list = {}
    /\ filter_i = 1
    /\ filtered_companies = <<>>
    /\ RecordIdle
    /\ JobIdle

NextPipeline ==
    \/ CheckCookieWall
    \/ ExtractFromTables
    \/ ExtractFromDivs
    \/ ExtractFromDataAttributes
    \/ ExtractFromTextPatterns
    \/ ExtractFromPageSource
    \/ ExtractFromEwPatterns
    \/ DedupCall
    \/ DedupScanStep
    \/ DedupCleanStep
    \/ DedupReturn
    \/ StoreCompanies
    \/ LoadTrackingList
    \/ FilterCall
    \/ FilterStep
    \/ FilterReturn
    \/ SaveFiltered
    \/ SaveDebugPage
    \/ ReturnError

SpecPipeline == InitPipeline /\ [][NextPipeline]_vars

(***************************************************************************)
(* run_earnings_scraper of scheduled_scraper.py, the job the scheduler     *)
(* calls.  The calls that can raise in a run are in faults: setup_driver   *)
(* in the constructor, a call of the driver inside the try of              *)
(* scrape_calendar, and driver.quit() inside close.  What                  *)
(* extract_earnings_data returns to scrape_calendar is one of the          *)
(* envelopes of ScrapedEnvelopes.                                          *)
(***************************************************************************)
\* today = datetime.now().strftime("%Y%m%d")
today == "20250115"

setup_error == "ChromeDriver not found. Please check installation."
quit_error == "Message: chrome not reachable"

JobFaultSites == {"setup_driver", "driver_get", "quit"}

\* the lists of n canonical records
ScrapedCompanies(n) == [k \in 1..n |-> [symbol |-> RecordSymbols[k], source |-> ".stock"]]

\* the envelopes extract_earnings_data returns
ScrapedEnvelopes ==
    {Update(NewEnvelope, [companies |-> ScrapedCompanies(n)]) : n \in 1..2}
    \cup {Update(NewEnvelope, [status |-> "no_data_found", message |-> "No earnings data found"]),
          Update(NewEnvelope, [status |-> "cookie_wall_present",
                               message |-> "Cookie acceptance required but not completed"])}
    \cup {ErrorEnvelope(Update(NewEnvelope, [companies |-> ScrapedCompanies(n)]), driver_error) :
             n \in 0..1}

LogRecord(level, message) == [level |-> level, message |-> message]

\* what no step of run_earnings_scraper touches
jobFrame == << dedupData, filterVars, recordVars, page, earnings_data, filtered_data >>

\* logging.info("Starting scheduled earnings scraper...")
JobStart ==
    /\ pc = "job_start"
    /\ log' = Append(log, LogRecord("info", "Starting scheduled earnings scraper..."))
    /\ pc' = "construct"
    /\ UNCHANGED << jobFrame, faults, exception, scraper, job_data, quits >>

\* scraper = EarningsSeleniumScraper(headless=True, debug=False); setup_driver
\* raises again what it caught and scraper stays None
Construct ==
    /\ pc = "construct"
    /\ IF "setup_driver" \in faults
       THEN /\ exception' = setup_error
            /\ pc' = "job_except"
            /\ UNCHANGED scraper
       ELSE /\ scraper' = "constructed"
            /\ pc' = "scrape"
            /\ UNCHANGED exception
    /\ UNCHANGED << jobFrame, faults, job_data, quits, log >>

\* data = scraper.scrape_calendar(today): None when a call raises inside its
\* try, else what extract_earnings_data returned
ScrapeCalendar ==
    /\ pc = "scrape"
    /\ IF "driver_get" \in faults
       THEN job_data' = NoData
       ELSE \E envelope \in ScrapedEnvelopes : job_data' = envelope
    /\ pc' = "inspect"
    /\ UNCHANGED << jobFrame, faults, exception, scraper, quits, log >>

\* data and data.get('status') == 'success'
IsSuccess(returned) == returned /= NoData /\ Get(returned, "status", "") = "success"

\* the record the if/else of lines 34-38 logs
OutcomeRecord(returned, success) ==
    IF success
    THEN LogRecord("info", "Successfully scraped " \o ToString(Len(Get(returned, "companies", <<>>)))
                              \o " companies for " \o today)
    ELSE LogRecord("warning", "Scraping failed or no data found for " \o today)

InspectData ==
    /\ pc = "inspect"
    /\ log' = Append(log, OutcomeRecord(job_data, IsSuccess(job_data)))
    /\ pc' = "finally"
    /\ UNCHANGED << jobFrame, faults, exception, scraper, job_data, quits >>

\* except Exception as e: logging.error(...)
LogError ==
    /\ pc = "job_except"
    /\ log' = Append(log, LogRecord("error", "Error in scheduled scraper: " \o exception))
    /\ exception' = NoException
    /\ pc' = "finally"
    /\ UNCHANGED << jobFrame, faults, scraper, job_data, quits >>

\* finally: if scraper: scraper.close(), which calls self.driver.quit(); an
\* exception of quit leaves run_earnings_scraper
Finally ==
    /\ pc = "finally"
    /\ IF scraper = "None"
       THEN /\ pc' = "job_returned"
            /\ UNCHANGED << quits, exception >>
       ELSE /\ quits' = quits + 1
            /\ IF "quit" \in faults
               THEN /\ exception' = quit_error
                    /\ pc' = "job_raised"
               ELSE /\ pc' = "job_returned"
                    /\ UNCHANGED exception
    /\ UNCHANGED << jobFrame, faults, scraper, job_data, log >>

\* the runs the scheduler has started
MaxRuns == 2

RunsStarted == Cardinality({k \in DOMAIN log : log[k].level = "info"
                                               /\ log[k].message = "Starting scheduled earnings scraper..."})

\* the scheduler calls the job again at the next trigger
ScheduleNext ==
    /\ pc \in {"job_returned", "job_raised"}
    /\ RunsStarted < MaxRuns
    /\ faults' \in SUBSET JobFaultSites
    /\ scraper' = "None"
    /\ job_data' = NoData
    /\ quits' = 0
    /\ exception' = NoException
    /\ pc' = "job_start"
    /\ UNCHANGED << jobFrame, log >>

InitJob ==
    /\ pc = "job_start"
    /\ faults \in SUBSET JobFaultSites
    /\ heap = <<>>
    /\ DedupIdle
    /\ unique_companies = <<>>
    /\ FilterIdle
    /\ RecordIdle
    /\ JobIdle
    /\ page = NoPage
    /\ earnings_data = EmptyDict
    /\ filtered_data = EmptyDict
    /\ exception = NoException

NextJob ==
    \/ JobStart
    \/ Construct
    \/ ScrapeCalendar
    \/ InspectData
    \/ LogError
    \/ Finally
    \/ ScheduleNext

SpecJob == InitJob /\ [][NextJob]_vars

\* a run that has begun goes on: run_earnings_scraper is sequential code
SpecJobFair == SpecJob /\ WF_vars(NextJob)

(***************************************************************************)
(* Claim on the whole pipeline.                                            *)
(***************************************************************************)
\* deduplicate_companies has returned to extract_earnings_data
AfterDedup ==
    pc \in {"deduped", "load_tracking", "filter", "filtering", "filtered", "debug_page",
            "returned"}

\* the canonical records
CanonicalNow == Contents(heap, unique_companies)

\* the filtered records
FilteredNow == Contents(heap, filtered_companies)

\* C9: on the page with the single table [Symbol, Company, Reported Revenue] /
\* [AAPL, Apple Inc., $95 Bil] the six strategies and deduplicate_companies
\* produce exactly one canonical record, with symbol AAPL, company_name
\* Apple Inc. and revenue_millions 95000 and no growth_rate; the filter leaves
\* it out when AAPL is not in the tracking list and takes it with filter_reason
\* tracking_list when it is; no call of the driver or of the file system
\* raises.
C9_EndToEnd ==
    (page = TablePage /\ faults = {}) =>
        /\ pc /= "raised"
        /\ AfterDedup =>
              /\ Len(CanonicalNow) = 1
              /\ CanonicalNow[1].symbol = <<"A","A","P","L">>
              /\ "company_name" \in DOMAIN CanonicalNow[1]
              /\ CanonicalNow[1].company_name = <<"A","p","p","l","e"," ","I","n","c",".">>
              /\ "revenue_millions" \in DOMAIN CanonicalNow[1]
              /\ CanonicalNow[1].revenue_millions = 95000 * Scale
              /\ "growth_rate" \notin DOMAIN CanonicalNow[1]
        /\ pc \in {"filtered", "debug_page", "returned"} =>
              IF <<"A","A","P","L">> \in tracking_arg.symbols
              THEN /\ Len(FilteredNow) = 1
                   /\ FilteredNow[1].ticker = <<"A","A","P","L">>
                   /\ FilteredNow[1].filter_reason = "tracking_list"
              ELSE FilteredNow = <<>>
        /\ pc = "returned" =>
              /\ earnings_data.status = "success"
              /\ earnings_data.companies = unique_companies
              /\ (filtered_data /= EmptyDict) = (<<"A","A","P","L">> \in tracking_arg.symbols)

\* C9 witness: extract_earnings_data has returned for that page with AAPL in
\* the tracking list; the one canonical record has revenue_millions 95000 and
\* is the one filtered record.
C9_Witness ==
    /\ page = TablePage
    /\ faults = {}
    /\ pc = "returned"
    /\ <<"A","A","P","L">> \in tracking_arg.symbols
    /\ Len(CanonicalNow) = 1
    /\ CanonicalNow[1].revenue_millions = 95000 * Scale
    /\ Len(FilteredNow) = 1
    /\ FilteredNow[1].filter_reason = "tracking_list"

(***************************************************************************)
(* Claims on what extract_earnings_data returns when there is no record    *)
(* and when a call raises.                                                 *)
(***************************************************************************)
\* deduplicate_companies has returned the empty list
DedupEmpty ==
    /\ Len(calls) = 1
    /\ calls[1].outcome = "returned"
    /\ calls[1].output = <<>>

\* C13: when deduplicate_companies returns no record and no call raises,
\* extract_earnings_data does not raise and does not filter; the envelope it
\* returns has status no_data_found, a message and an empty companies list,
\* and no filtered envelope is produced.
C13_NoDataFound ==
    (faults = {} /\ DedupEmpty) =>
        /\ pc \in {"deduped", "debug_page", "returned"}
        /\ filtered_data = EmptyDict
        /\ pc \in {"debug_page", "returned"} =>
              /\ earnings_data.status = "no_data_found"
              /\ "message" \in DOMAIN earnings_data
              /\ earnings_data.message /= ""
              /\ earnings_data.companies = <<>>

\* C13 witness: the strategies found candidates, deduplicate_companies
\* rejected them all, and extract_earnings_data has returned no_data_found.
C13_Witness ==
    /\ pc = "returned"
    /\ faults = {}
    /\ DedupEmpty
    /\ companies /= <<>>
    /\ earnings_data.status = "no_data_found"
    /\ earnings_data.companies = <<>>
    /\ filtered_data = EmptyDict

\* deduplicate_companies let the ValueError of extract_financial_data through
DedupRaised == calls /= <<>> /\ calls[Len(calls)].outcome = "raised"

\* the places of extract_earnings_data in the order a run passes them
Stages ==
    << "start", "tables", "divs", "data_attributes", "text_patterns", "page_source",
       "ew_patterns", "candidates", "scan", "clean", "deduped", "load_tracking", "filter",
       "filtering", "filtered", "debug_page", "raised", "returned" >>

StageOf(place) == CHOOSE k \in DOMAIN Stages : Stages[k] = place

\* a step goes to a later place, or stays in a loop and moves its position on
Advances ==
    \/ StageOf(pc') > StageOf(pc)
    \/ /\ pc' = pc
       /\ \/ pc = "scan" /\ scan_i' > scan_i /\ scan_i <= Len(companies)
          \/ pc = "clean" /\ clean_i' > clean_i /\ clean_i <= Len(symbol_to_best_company)
          \/ pc = "filtering" /\ filter_i' > filter_i /\ filter_i <= Len(unique_companies)

\* C14: whatever call raises on the way, every step of extract_earnings_data
\* leads on towards its return and what it returns is an envelope; an
\* exception that reaches its except clause is reported as status error with
\* str(e) as message, and a call that raises inside a strategy, in
\* load_tracking_list or in save_to_file does not give status error.
C14_AlwaysReturns ==
    /\ [](pc \in Range(Stages))
    /\ [][Advances]_vars
    /\ [](pc = "returned" =>
            /\ {"date", "companies", "status"} \subseteq DOMAIN earnings_data
            /\ earnings_data.status
                  \in {"success", "cookie_wall_present", "no_data_found", "error"})
    /\ [][pc = "raised" =>
            /\ pc' = "returned"
            /\ earnings_data'.status = "error"
            /\ earnings_data'.message = exception
            /\ exception \in {driver_error, file_error, float_error}]_vars
    /\ []((pc = "returned" /\ earnings_data.status = "error") =>
            (DedupRaised \/ faults \cap FaultSites /= {}))
    /\ []((pc = "returned" /\ ~DedupRaised /\ faults \cap FaultSites = {}) =>
            earnings_data.status /= "error")

\* C14 witness: the ValueError of extract_financial_data left
\* deduplicate_companies, and extract_earnings_data has returned the envelope
\* with status error and the message of the ValueError.
C14_Witness ==
    /\ pc = "returned"
    /\ DedupRaised
    /\ companies /= <<>>
    /\ earnings_data.status = "error"
    /\ earnings_data.message = float_error
    /\ earnings_data.companies = <<>>

(***************************************************************************)
(* Claims on the strategies when a call of the driver raises.              *)
(***************************************************************************)
\* the elements that do not raise
Live(elements) == SelectSeq(elements, LAMBDA e : ~IsStale(e))

\* the candidates whose selector or read did not raise
Sound(found) == SelectSeq(found, LAMBDA c : c.source \notin faults)

\* the rows of a table up to the first one that raises
RowsBeforeStale(rows) ==
    SubSeq(rows, 1, Least({k \in DOMAIN rows : IsStale(rows[k])} \cup {Len(rows) + 1}) - 1)

\* the candidates of the tables when a row that raises ends its table
ExpectedRows ==
    IF "tables" \in faults THEN <<>>
    ELSE extract_from_tables([i \in DOMAIN page.tables |-> RowsBeforeStale(page.tables[i])], {})

\* the candidates of strategies 2 to 6 when an element that raises is
\* skipped and a selector or a read that raises is skipped
ExpectedOthers ==
    Sound(extract_from_divs(Live(page.elements), {}))
    \o Sound(extract_from_data_attributes(Live(page.elements), {}))
    \o Sound(extract_from_text_patterns(page.body_text, {}))
    \o Sound(extract_from_page_source(page.page_source, {}))
    \o Sound(extract_from_ew_patterns(Live(page.elements), {}))

\* the candidates the six strategies have appended
CandidatesNow == Contents(heap, companies)

\* data row j of table i can be read and has something to emit
ReadableRow(i, j) ==
    /\ "tables" \notin faults
    /\ ~IsStale(page.tables[i][1])
    /\ ~IsStale(page.tables[i][j + 1])
    /\ Len(page.tables[i][j + 1].td) >= 2

\* no exception of a strategy reaches extract_earnings_data
NotPropagated ==
    /\ pc \in {"divs", "data_attributes", "text_patterns", "page_source", "ew_patterns",
              "candidates"} => exception = NoException
    /\ (pc = "raised" /\ exception = driver_error) => "cookie_check" \in faults

\* C15 as stated: a failure aborts only its own sub-attempt, so every row of
\* a table that does not itself raise is still read and has its candidate,
\* as every element and selector that does not raise has.
C15_OnlySubAttemptLost ==
    /\ NotPropagated
    /\ pc = "candidates" =>
          /\ \A i \in DOMAIN page.tables : \A j \in 1..(Len(page.tables[i]) - 1) :
                ReadableRow(i, j) =>
                   \E k \in DOMAIN CandidatesNow : CandidatesNow[k].source = TableSource(i, j)
          /\ SubSeq(CandidatesNow, Len(CandidatesNow) - Len(ExpectedOthers) + 1,
                    Len(CandidatesNow)) = ExpectedOthers

\* C15, what the code does: no failure leaves a strategy and the six
\* strategies all run;
\* an element that raises is skipped alone, a selector whose find_elements
\* raises is skipped alone, a read of the body or of page_source that raises
\* ends its strategy, and a row that raises ends its table: the candidates of
\* the rows before it are kept, the rows after it are not read, the other
\* tables are.
C15_FaultsContained ==
    /\ NotPropagated
    /\ pc = "candidates" => CandidatesNow = ExpectedRows \o ExpectedOthers

\* C15 witness: on the page with a row, a header and elements that raise,
\* with a selector that raises too, the six strategies have run and the
\* candidates of the sound rows, elements and selectors are there.
C15_Witness ==
    /\ pc = "candidates"
    /\ page = FaultyPage
    /\ faults = {".stock"}
    /\ exception = NoException
    /\ Len(ExpectedRows) = 2
    /\ CandidatesNow = ExpectedRows \o ExpectedOthers
    /\ \E k \in DOMAIN CandidatesNow : CandidatesNow[k].source = "[data-symbol]"
    /\ \A k \in DOMAIN CandidatesNow : CandidatesNow[k].source /= ".stock"

(***************************************************************************)
(* Claims on the filtered envelope.                                        *)
(***************************************************************************)
\* the strs of a list stand in ascending order, none twice
IsAscending(list) == \A i, j \in DOMAIN list : i < j => StrLess(list[i], list[j])

\* extract_earnings_data is past the place where filtered_data is built
PastFiltered == pc \in {"debug_page", "raised", "returned"}

\* C16: filtered_data is built and handed to save_to_file exactly when
\* filter_companies_by_criteria returned a record; then total_filtered is the
\* number of its companies, total_original the number of canonical records,
\* total_filtered <= total_original, tracking_list is the tracking list in
\* ascending order and tracking_list_count its size.
C16_FilteredEnvelope ==
    /\ ~PastFiltered => filtered_data = EmptyDict
    /\ PastFiltered => (filtered_data /= EmptyDict <=> filtered_companies /= <<>>)
    /\ filtered_data /= EmptyDict =>
          /\ filtered_data.companies = filtered_companies
          /\ filtered_data.total_filtered = Len(filtered_data.companies)
          /\ filtered_data.total_original = Len(unique_companies)
          /\ filtered_data.total_original = Len(earnings_data.companies)
          /\ filtered_data.total_filtered <= filtered_data.total_original
          /\ IsAscending(filtered_data.filter_criteria.tracking_list)
          /\ Range(filtered_data.filter_criteria.tracking_list)
                = load_tracking_list(tracking_file)
          /\ filtered_data.filter_criteria.tracking_list_count
                = Len(filtered_data.filter_criteria.tracking_list)

\* C16 witness: two canonical records of which the filter kept one, with a
\* tracking list of two symbols that stand in the file in descending order.
C16_Witness ==
    /\ pc = "returned"
    /\ filtered_data /= EmptyDict
    /\ filtered_data.total_filtered = 1
    /\ filtered_data.total_original = 2
    /\ Len(companies) > 2
    /\ filtered_data.filter_criteria.tracking_list = << <<"A","A","P","L">>, <<"M","S","F","T">> >>
    /\ tracking_file.lines = << <<"m","s","f","t","\n">>, <<"A","A","P","L">> >>

\* C16 witness of the other side: the filter ran on a canonical record and
\* kept none, and no filtered envelope was built.
C16_NoneKept ==
    /\ pc = "returned"
    /\ unique_companies /= <<>>
    /\ filter_i > Len(unique_companies)
    /\ filtered_companies = <<>>
    /\ filtered_data = EmptyDict

(***************************************************************************)
(* Claims on the false positive lexicons.                                  *)
(***************************************************************************)
\* the tokens extract_from_text_patterns or extract_from_ew_patterns discards
StrategyLexicons == text_false_positives \cup ew_false_positives

\* the source tags of the candidates the strategies appended with this symbol
ProposedBy(symbol) ==
    {CandidatesNow[k].source :
        k \in {j \in DOMAIN CandidatesNow : CandidatesNow[j].symbol = symbol}}

\* C17: a token that extract_from_text_patterns or extract_from_ew_patterns
\* discards as a false positive is rejected by deduplicate_companies too when
\* another strategy proposes it: no canonical record has such a symbol.
C17_LexiconSuperset ==
    AfterDedup =>
        \A k \in DOMAIN CanonicalNow : CanonicalNow[k].symbol \notin StrategyLexicons

\* C17 witness: extract_from_text_patterns read the line with MON and
\* proposed nothing, the data attributes proposed MON, and
\* deduplicate_companies has returned.
C17_Witness ==
    /\ pc = "returned"
    /\ page = WeekdayPage
    /\ Contains(page.body_text, <<"M","O","N">>)
    /\ <<"M","O","N">> \in text_false_positives
    /\ ProposedBy(<<"M","O","N">>) /= {}
    /\ "text_pattern" \notin ProposedBy(<<"M","O","N">>)

(***************************************************************************)
(* Claims on calculate_data_richness.                                      *)
(***************************************************************************)
\* the text of a field, '' when the candidate has no such field
TextOf(company, key) == IF key \in DOMAIN company THEN company[key] ELSE <<>>

\* the four texts joined with a space, lowercased
JoinedText(company) ==
    Lower(TextOf(company, "raw_text") \o <<" ">> \o TextOf(company, "context_line") \o <<" ">>
          \o TextOf(company, "company_name") \o <<" ">> \o TextOf(company, "reported_revenue"))

\* 1 when the condition holds, 0 when not
Indicator(condition) == IF condition THEN 1 ELSE 0

\* the three revenue bonuses, as conditions of which no two hold together
RevenueBonusCases(text) ==
    << [bonus |-> 80, applies |-> Contains(text, <<"r","e","p","o","r","t","e","d"," ","r","e","v","e","n","u","e">>)],
       [bonus |-> 50, applies |-> /\ ~Contains(text, <<"r","e","p","o","r","t","e","d"," ","r","e","v","e","n","u","e">>)
                                  /\ Contains(text, <<"r","e","v","e","n","u","e">>)
                                  /\ ~Contains(text, <<"e","s","t","i","m","a","t","e">>)],
       [bonus |-> 20, applies |-> /\ ~Contains(text, <<"r","e","p","o","r","t","e","d"," ","r","e","v","e","n","u","e">>)
                                  /\ Contains(text, <<"r","e","v","e","n","u","e">>)
                                  /\ Contains(text, <<"e","s","t","i","m","a","t","e">>)] >>

\* the score as the sum of its parts
ScoreParts(company, text, cases) ==
      10 * Indicator(TextOf(company, "company_name") /= <<>>)
    + 100 * Indicator(TextOf(company, "reported_revenue") /= <<>>)
    + Len(TextOf(company, "raw_text"))
    + Len(TextOf(company, "context_line"))
    + cases[1].bonus * Indicator(cases[1].applies)
    + cases[2].bonus * Indicator(cases[2].applies)
    + cases[3].bonus * Indicator(cases[3].applies)
    + 30 * Indicator(Contains(text, <<"b","i","l">>) \/ Contains(text, <<"m","i","l","l","i","o","n">>))
    + 20 * Indicator(Contains(text, <<"%">>))
    + 20 * Indicator(Contains(text, <<"e","a","r","n","i","n","g","s">>))

\* C18: calculate_data_richness returns a non-negative integer, the sum of
\* 10 for a non-empty company_name, 100 for a non-empty reported_revenue,
\* len(raw_text), len(context_line), one of the revenue bonuses 80 (the
\* joined lowercased text contains 'reported revenue'), else 50 ('revenue'
\* and not 'estimate'), else 20 ('revenue'), else 0, 30 for 'bil' or
\* 'million', 20 for '%' and 20 for 'earnings'.
C18_RichnessScore ==
    \A id \in DOMAIN scores :
        /\ scores[id] \in Nat
        /\ scores[id] = ScoreParts(heap[id], JoinedText(heap[id]),
                                   RevenueBonusCases(JoinedText(heap[id])))
        /\ Cardinality({k \in 1..3 :
                           RevenueBonusCases(JoinedText(heap[id]))[k].applies}) <= 1

\* C18 witness: a scored candidate whose text contains 'reported revenue',
\* 'revenue' and 'estimate' at once, with a company_name and a
\* reported_revenue: 10 + 100 + 22 + 23 + 80 + 30.
C18_Witness ==
    \E id \in DOMAIN scores :
        /\ "reported_revenue" \in DOMAIN heap[id]
        /\ TextOf(heap[id], "company_name") = <<"A","p","p","l","e"," ","I","n","c",".">>
        /\ TextOf(heap[id], "raw_text") = <<"R","e","v","e","n","u","e"," ","E","s","t","i","m","a","t","e",":"," ","$","5"," ","B">>
        /\ TextOf(heap[id], "context_line") = <<"R","e","p","o","r","t","e","d"," ","R","e","v","e","n","u","e",":"," ",","," ","B","i","l">>
        /\ TextOf(heap[id], "reported_revenue") = <<"9","5">>
        /\ scores[id] = 265

(***************************************************************************)
(* Claims on the Reported Revenue column of a table.                       *)
(***************************************************************************)
\* the 0-based indexes of the header cells that name the reported revenue
RevenueHeaders(i) ==
    {c \in 0..(Len(HeaderCells(page.tables[i][1])) - 1) :
        /\ Contains(Lower(HeaderCells(page.tables[i][1])[c + 1]), <<"r","e","p","o","r","t","e","d"," ","r","e","v","e","n","u","e">>)
        /\ ~Contains(Lower(HeaderCells(page.tables[i][1])[c + 1]), <<"e","s","t","i","m","a","t","e">>)}

\* table i has a remembered column
HasRevenueColumn(i) == RevenueHeaders(i) /= {}

\* the remembered column of table i: the first such header cell
RememberedCol(i) == Least(RevenueHeaders(i))

\* the text of the cell of data row j in the remembered column, '' if the
\* row is shorter
RevenueCell(i, j) ==
    IF RememberedCol(i) + 1 <= Len(page.tables[i][j + 1].td)
    THEN Strip(page.tables[i][j + 1].td[RememberedCol(i) + 1])
    ELSE <<>>

\* the candidates emitted for data row j of table i
RowCandidates(i, j) ==
    {CandidatesNow[k] : k \in {n \in DOMAIN CandidatesNow :
                                  CandidatesNow[n].source = TableSource(i, j)}}

\* no call on table i raises
SoundTable(i) ==
    /\ "tables" \notin faults
    /\ \A k \in DOMAIN page.tables[i] : ~IsStale(page.tables[i][k])

\* the data rows of table i with at least 2 cells and a non-empty cell in
\* the remembered column
RevenueRows(i) ==
    {j \in 1..(Len(page.tables[i]) - 1) :
        Len(page.tables[i][j + 1].td) >= 2 /\ RevenueCell(i, j) /= <<>>}

\* extract_from_tables has run and deduplicate_companies has not begun
TablesDone ==
    pc \in {"divs", "data_attributes", "text_patterns", "page_source", "ew_patterns",
            "candidates"}

HasRevenueOfCell(c, i, j) ==
    "reported_revenue" \in DOMAIN c /\ c.reported_revenue = RevenueCell(i, j)

\* C20: when a header cell of a table contains 'reported revenue' and not
\* 'estimate', every data row with at least 2 cells and a non-empty cell in
\* the remembered column has a candidate whose reported_revenue is the text
\* of that cell, whatever the index of the remembered column.
C20_RememberedColumn ==
    TablesDone =>
        \A i \in DOMAIN page.tables :
            (SoundTable(i) /\ page.tables[i] /= <<>> /\ HasRevenueColumn(i)) =>
                \A j \in RevenueRows(i) :
                    /\ RowCandidates(i, j) /= {}
                    /\ \A c \in RowCandidates(i, j) : HasRevenueOfCell(c, i, j)

\* the cell of the remembered column is not taken as symbol or company_name
\* before the column is looked at
ColumnIsLookedAt(i, j) ==
    \/ RememberedCol(i) >= 2
    \/ RememberedCol(i) = 0 /\ ~MatchesTicker(RevenueCell(i, j))

\* C20, what the code does: the same for the rows whose remembered column
\* has index 2 or more, or index 0 with a cell that is not 1 to 5 capitals;
\* at index 1 the cell becomes company_name and at index 0 a cell of 1 to 5
\* capitals becomes symbol, and the candidate has no reported_revenue.
C20_ColumnAfterName ==
    TablesDone =>
        \A i \in DOMAIN page.tables :
            (SoundTable(i) /\ page.tables[i] /= <<>> /\ HasRevenueColumn(i)) =>
                \A j \in RevenueRows(i) :
                    /\ RowCandidates(i, j) /= {}
                    /\ \A c \in RowCandidates(i, j) :
                          IF ColumnIsLookedAt(i, j) THEN HasRevenueOfCell(c, i, j)
                          ELSE "reported_revenue" \notin DOMAIN c

\* C20 witness: extract_from_tables has read the tables with the Reported
\* Revenue header at index 1, 0 and 3; the row of the first has its revenue
\* cell as company_name and no reported_revenue, the rows of the others have
\* the cell as reported_revenue.
C20_Witness ==
    /\ pc = "divs"
    /\ page = ColumnsPage
    /\ RememberedCol(1) = 1 /\ RememberedCol(2) = 0 /\ RememberedCol(3) = 3
    /\ RevenueRows(3) = {1}
    /\ \E c \in RowCandidates(1, 1) :
          c.company_name = <<"$","9","5"," ","B","i","l">> /\ "reported_revenue" \notin DOMAIN c
    /\ \E c \in RowCandidates(2, 1) : c.reported_revenue = <<"$","7"," ","M","i","l">>
    /\ \E c \in RowCandidates(3, 1) : c.reported_revenue = <<"$","6","0"," ","B","i","l">>

(***************************************************************************)
(* Claims on the candidates the strategies emit.                           *)
(***************************************************************************)
\* a str of 1 to 5 capital letters
IsTicker(s) == Len(s) \in 1..5 /\ \A n \in DOMAIN s : s[n] \in UpperSet

\* the candidate has a symbol that is 1 to 5 capital letters once stripped
\* and uppercased
CarriesSymbol(c) == "symbol" \in DOMAIN c /\ IsTicker(Upper(Strip(c.symbol)))

\* C21: every candidate a strategy has appended carries a symbol field that
\* is, after normalization, an uppercase string of 1 to 5 letters.
C21_SymbolRequired ==
    TablesDone => \A k \in DOMAIN CandidatesNow : CarriesSymbol(CandidatesNow[k])

\* C21 witness: the six strategies have run; the table row whose first cell
\* is an amount and the element with data-ticker have candidates with no
\* symbol field, next to candidates that have one.
C21_Witness ==
    /\ pc = "candidates"
    /\ page = ColumnsPage
    /\ \E k \in DOMAIN CandidatesNow :
          /\ CandidatesNow[k].source = "[data-ticker]"
          /\ CandidatesNow[k].ticker = <<"A","A","P","L">>
          /\ "symbol" \notin DOMAIN CandidatesNow[k]
    /\ \E k \in DOMAIN CandidatesNow :
          /\ CandidatesNow[k].source = TableSource(2, 1)
          /\ "symbol" \notin DOMAIN CandidatesNow[k]
    /\ \E k \in DOMAIN CandidatesNow : CarriesSymbol(CandidatesNow[k])

(***************************************************************************)
(* Claims on the fields of a canonical record.                             *)
(***************************************************************************)
FinancialKeys == {"revenue_millions", "revenue_raw", "growth_rate", "growth_raw"}

\* the fields of a dict whose keys are in keys
Restrict(d, keys) == [key \in DOMAIN d \cap keys |-> d[key]]

\* what extract_financial_data returns for a dict, {} when it raises
FinancialOf(result) == IF result.raised THEN EmptyDict ELSE Restrict(result.value, FinancialKeys)

\* canonical record k and the candidate deduplicate_companies retained for it
RecordAt(k) == heap[unique_companies[k]]

RetainedAt(k) == heap[symbol_to_best_company[k].company]

\* the fields the record itself retains
CleanedAt(k) == Restrict(RecordAt(k), DOMAIN RecordAt(k) \ FinancialKeys)

RawTextCapped(k) == "raw_text" \in DOMAIN RecordAt(k) => Len(RecordAt(k).raw_text) < 500

\* C22 as stated: raw_text of a canonical record, when present, is shorter
\* than 500 characters, and its financial fields are exactly those
\* extract_financial_data derives from the fields the record retains.
C22_FromCleanedFields ==
    AfterDedup =>
        \A k \in DOMAIN unique_companies :
            /\ RawTextCapped(k)
            /\ Restrict(RecordAt(k), FinancialKeys)
                  = FinancialOf(extract_financial_data(CleanedAt(k)))

\* C22 amended: raw_text of a canonical record, when present, is shorter
\* than 500 characters, and its financial fields are exactly those
\* extract_financial_data derives from the retained candidate as the
\* strategy emitted it, reported_revenue and a raw_text of 500 characters or
\* more included, which the record does not retain.
C22_FromRetainedCandidate ==
    AfterDedup =>
        \A k \in DOMAIN unique_companies :
            /\ RawTextCapped(k)
            /\ RecordAt(k).symbol = symbol_to_best_company[k].symbol
            /\ Restrict(RecordAt(k), FinancialKeys)
                  = FinancialOf(extract_financial_data(RetainedAt(k)))

\* C22 witness: of the two elements with a revenue in their text, the one
\* of 500 characters gave a record with revenue_millions and no raw_text,
\* the one of 499 characters a record with revenue_millions and its raw_text.
C22_Witness ==
    /\ pc = "returned"
    /\ page = LongTextPage
    /\ Len(unique_companies) = 2
    /\ Len(RetainedAt(1).raw_text) = 500
    /\ "raw_text" \notin DOMAIN RecordAt(1)
    /\ RecordAt(1).revenue_millions = 3000 * Scale
    /\ Len(RecordAt(2).raw_text) = 499
    /\ RecordAt(2).revenue_millions = 2000 * Scale

(***************************************************************************)
(* Claims on the status of the returned envelope.                          *)
(***************************************************************************)
\* the cookie wall marker is in the page source and the read does not raise
CookieWallSeen ==
    Contains(page.page_source, <<"A","c","c","e","p","t"," ","C","o","o","k","i","e","s">>) /\ "cookie_check" \notin faults

\* no strategy has been called
NoStrategyRun ==
    /\ pc \in {"start", "returned"}
    /\ heap = <<>>
    /\ companies = <<>>
    /\ calls = <<>>

\* C23: in the envelope extract_earnings_data returns, status success goes
\* with a non-empty companies list, no_data_found and cookie_wall_present
\* with an empty one; when the cookie wall marker is in the page source no
\* strategy is run and the status is cookie_wall_present.
C23_StatusAndCompanies ==
    /\ pc = "returned" =>
          /\ earnings_data.status = "success" => earnings_data.companies /= <<>>
          /\ earnings_data.status \in {"no_data_found", "cookie_wall_present"} =>
                earnings_data.companies = <<>>
    /\ CookieWallSeen =>
          /\ NoStrategyRun
          /\ pc = "returned" => earnings_data.status = "cookie_wall_present"
    /\ (pc = "returned" /\ earnings_data.status = "cookie_wall_present") => CookieWallSeen

\* C23 witness: the write of the debug page raised after
\* deduplicate_companies returned a record, and the envelope returned has
\* status error and a non-empty companies list.
C23_Witness ==
    /\ pc = "returned"
    /\ faults = {"debug_page"}
    /\ unique_companies /= <<>>
    /\ earnings_data.status = "error"
    /\ earnings_data.message = file_error
    /\ earnings_data.companies = unique_companies

\* C23, the cookie wall: the page names a symbol in a data attribute and the
\* call returned cookie_wall_present with no candidate read.
C23_CookieWallReturned ==
    /\ pc = "returned"
    /\ page = CookiePage
    /\ page.elements /= <<>>
    /\ earnings_data.status = "cookie_wall_present"
    /\ earnings_data.companies = <<>>
    /\ heap = <<>>

(***************************************************************************)
(* Claims on the list filter_companies_by_criteria builds.                 *)
(***************************************************************************)
\* the positions in the input of the records with this symbol among the
\* first n
InputPositions(symbol, n) ==
    {k \in 1..n : Get(heap[unique_companies[k]], "symbol", <<>>) = symbol}

\* filtered record k was made from an input record among those the loop has
\* passed, and from a later one than filtered record k - 1
MadeInOrder(k) ==
    /\ InputPositions(heap[filtered_companies[k]].ticker, filter_i - 1) /= {}
    /\ k > 1 =>
          \E a \in InputPositions(heap[filtered_companies[k - 1]].ticker, filter_i - 1) :
             \E b \in InputPositions(heap[filtered_companies[k]].ticker, filter_i - 1) :
                a < b

\* the loop of filter_companies_by_criteria is running or has ended
InFilter == pc \in {"filtering", "filtered"}

FilteredListShape ==
    InFilter =>
        /\ Len(filtered_companies) <= filter_i - 1
        /\ Len(filtered_companies) <= Len(unique_companies)
        /\ \A k \in DOMAIN filtered_companies :
              /\ heap[filtered_companies[k]].filter_reason
                    \in {"tracking_list", "revenue_growth_criteria"}
              /\ MadeInOrder(k)
              /\ filtered_companies[k] \notin Range(unique_companies)
        /\ \A a, b \in DOMAIN filtered_companies :
              heap[filtered_companies[a]].ticker = heap[filtered_companies[b]].ticker
                 => a = b

InputsUnmodified ==
    /\ unique_companies' = unique_companies
    /\ \A k \in DOMAIN unique_companies :
          heap'[unique_companies[k]] = heap[unique_companies[k]]

\* C24: filter_companies_by_criteria appends at most one record per input
\* record, in input order, each with filter_reason tracking_list or
\* revenue_growth_criteria and the input's symbol as ticker; over input with
\* one record per symbol no two filtered records share a ticker, the
\* filtered list is never longer than the input, and no step changes an
\* input record.
C24_FilteredList == [](FilteredListShape) /\ [][InputsUnmodified]_vars

\* C24 witness: of two input records the first was kept for the tracking
\* list and the second for the criteria, in that order.
C24_Witness ==
    /\ pc = "filtered"
    /\ Len(unique_companies) = 2
    /\ Len(filtered_companies) = 2
    /\ heap[filtered_companies[1]].ticker = heap[unique_companies[1]].symbol
    /\ heap[filtered_companies[1]].filter_reason = "tracking_list"
    /\ heap[filtered_companies[2]].ticker = heap[unique_companies[2]].symbol
    /\ heap[filtered_companies[2]].filter_reason = "revenue_growth_criteria"

\* C24, a record left out: the first input record was excluded and the
\* second kept.
C24_FirstExcluded ==
    /\ pc = "filtered"
    /\ Len(unique_companies) = 2
    /\ Len(filtered_companies) = 1
    /\ heap[filtered_companies[1]].ticker = heap[unique_companies[2]].symbol

\* run_earnings_scraper has ended, by return or by an exception
JobEnded == pc \in {"job_returned", "job_raised"}

\* the messages of logging.info at line 36
SuccessMessages == {"Successfully scraped " \o ToString(n) \o " companies for " \o today : n \in 0..2}

\* the step logs the run as successful
LogsSuccess ==
    /\ Len(log') = Len(log) + 1
    /\ log'[Len(log')].level = "info"
    /\ log'[Len(log')].message \in SuccessMessages

\* a run is logged as successful only when the envelope has status success
SuccessOnlyForSuccess ==
    LogsSuccess => (job_data /= NoData /\ job_data.status = "success")

\* close is called at most once in a run, only on a constructed scraper, and
\* a run that has ended has called it exactly when the scraper was constructed
ClosedOnce ==
    /\ quits \in {0, 1}
    /\ quits = 1 => scraper = "constructed"
    /\ JobEnded => (quits = 1 <=> scraper = "constructed")

\* a constructed scraper is closed in the end
EventuallyClosed == (scraper = "constructed") ~> (JobEnded /\ quits = 1)

\* C25: in a scheduled run, once the scraper object has been constructed it
\* is eventually closed exactly once on every path, no exception escapes
\* the job to the scheduler, and a run is logged as successful only when
\* the returned envelope has status success.
C25_ClosedOnceNothingEscapes ==
    /\ EventuallyClosed
    /\ [](ClosedOnce)
    /\ [](pc /= "job_raised")
    /\ [][SuccessOnlyForSuccess]_vars

\* C25, what the code does: the scraper is eventually closed once and the
\* success is logged only for status success, and the one exception that
\* leaves the job is the one driver.quit() raises inside the finally block.
C25_EscapesOnlyFromClose ==
    /\ EventuallyClosed
    /\ [](ClosedOnce)
    /\ [](pc = "job_raised" => ("quit" \in faults /\ exception = quit_error /\ quits = 1))
    /\ [](("quit" \notin faults /\ pc \in {"finally", "job_returned"}) => exception = NoException)
    /\ [][SuccessOnlyForSuccess]_vars

\* C25 witness: a successful scrape was logged as successful, close was
\* called on the constructed scraper and the exception of driver.quit() left
\* the job.
C25_Witness ==
    /\ pc = "job_raised"
    /\ scraper = "constructed"
    /\ quits = 1
    /\ job_data /= NoData
    /\ job_data.status = "success"
    /\ log[Len(log)].message \in SuccessMessages
    /\ exception = quit_error

\* C25, the paths of the claim without a failing close: a run has returned
\* with the scraper closed once after a scrape that returned None.
C25_ClosedAfterNone ==
    /\ pc = "job_returned"
    /\ scraper = "constructed"
    /\ quits = 1
    /\ job_data = NoData
    /\ log[Len(log)].level = "warning"

=============================================================================
